---- MODULE Spec2Model ----
(***************************************************************************)
(* A model of the unitrie core: the flat entries map, the materializer,    *)
(* the RSKIP107 wire codec, the persistence walker, the rehydrator and the *)
(* "next" engine wrapped around the legacy engine.                         *)
(*                                                                         *)
(* Byte strings (Vec<u8>, &[u8]) are sequences of cells.  A cell is        *)
(* <<"b", n>> for the byte n, and a Keccak-256 digest is 32 cells: the     *)
(* cell <<"h", preimage>> followed by 31 cells <<"p", i>>.  The digest is  *)
(* thus collision free and opaque, and every length the code computes      *)
(* (32-byte hashes, the 44-byte embedding limit) is the length of the      *)
(* sequence.                                                               *)
(*                                                                         *)
(* Rust enums are tagged tuples: Option is <<"None">> / <<"Some", x>>,     *)
(* Result is <<"Ok", ...>> / <<"Err", msg>>.                               *)
(***************************************************************************)
EXTENDS Integers, Sequences, FiniteSets, TLC

VARIABLES
    legacy,     \* the Unitrie of a UnitrieCore built with UnitrieImplementation::LegacyV1
    next,       \* the NextUnitrie of a UnitrieCore built with UnitrieImplementation::Next
    stores,     \* the stores handed to save and from_persisted_root
    last,       \* the most recent call: its arguments, what it returned, its store calls
    touched,    \* the stores the current cores were saved to or rehydrated from
    steps       \* calls made so far

vars == <<legacy, next, stores, last, touched, steps>>

-----------------------------------------------------------------------------
(* Bytes and hashes                                                        *)

HASH_SIZE == 32
LONG_VALUE_THRESHOLD == 32
\* An embedding limit one byte above the source's.
EmbeddingLimitPlusOne == 44 + 1

MAX_EMBEDDED_NODE_SIZE_IN_BYTES == 44

Byte(n) == <<"b", n>>

\* A byte string given by its byte values.
B(ints) == [i \in 1..Len(ints) |-> Byte(ints[i])]

\* n copies of the byte b (vec![b; n]).
Repeat(b, n) == [i \in 1..n |-> Byte(b)]

IsByte(cell) == cell[1] = "b"

\* The numeric value of a cell; the code only does arithmetic on plain bytes.
U8(cell) == cell[2]

keccak256(input) ==
    [i \in 1..HASH_SIZE |-> IF i = 1 THEN <<"h", input>> ELSE <<"p", i>>]

EMPTY_TRIE_RLP == B(<<128>>)

\* The digest of the empty string, not of EMPTY_TRIE_RLP.
empty_string_hash == keccak256(<<>>)

empty_trie_hash == keccak256(EMPTY_TRIE_RLP)

IsHash(bytes) ==
    /\ Len(bytes) = HASH_SIZE
    /\ bytes[1][1] = "h"
    /\ \A i \in 2..HASH_SIZE : bytes[i] = <<"p", i>>

Min(a, b) == IF a <= b THEN a ELSE b

\* payload[from..to) with 0-based offsets, as a Rust slice.
Slice(payload, from, to) == SubSeq(payload, from + 1, to)

-----------------------------------------------------------------------------
(* varint.rs                                                               *)

size_of(value) ==
    IF value < 253 THEN 1
    ELSE IF value <= 65535 THEN 3
    ELSE 5

\* Little-endian bytes of value, n of them.
to_le_bytes(value, n) == [i \in 1..n |-> Byte((value \div (256 ^ (i - 1))) % 256)]

varint_encode(value) ==
    IF value < 253 THEN <<Byte(value)>>
    ELSE IF value <= 65535 THEN <<Byte(253)>> \o to_le_bytes(value, 2)
    ELSE <<Byte(254)>> \o to_le_bytes(value, 4)

RECURSIVE from_le_bytes(_)
from_le_bytes(bytes) ==
    IF bytes = <<>> THEN 0 ELSE U8(Head(bytes)) + 256 * from_le_bytes(Tail(bytes))

varint_decode_fixed(input, offset, n, what) ==
    IF offset + n > Len(input)
    THEN <<"Err", what>>
    ELSE <<"Ok", from_le_bytes(Slice(input, offset, offset + n)), offset + n>>

\* Returns <<"Ok", value, offset'>> or <<"Err", msg>>.
varint_decode_from_slice(input, offset) ==
    IF offset >= Len(input) THEN <<"Err", "varint is truncated">>
    ELSE LET first == U8(input[offset + 1]) IN
         CASE first = 253 -> varint_decode_fixed(input, offset + 1, 2, "varint u16 is truncated")
           [] first = 254 -> varint_decode_fixed(input, offset + 1, 4, "varint u32 is truncated")
           [] first = 255 -> varint_decode_fixed(input, offset + 1, 8, "varint u64 is truncated")
           [] OTHER -> <<"Ok", first, offset + 1>>

-----------------------------------------------------------------------------
(* path/shared_path_serializer.rs                                          *)

calculate_encoded_length(key_length) ==
    (key_length \div 8) + (IF key_length % 8 = 0 THEN 0 ELSE 1)

\* Bits (0/1) packed MSB first; unused trailing bits are zero.
path_encode(path) ==
    [j \in 1..calculate_encoded_length(Len(path)) |->
        LET bit(o) == IF 8 * (j - 1) + o + 1 <= Len(path)
                      THEN path[8 * (j - 1) + o + 1] ELSE 0
        IN Byte(  128 * bit(0) + 64 * bit(1) + 32 * bit(2) + 16 * bit(3)
                + 8 * bit(4) + 4 * bit(5) + 2 * bit(6) + bit(7))]

\* decode that unpacks each byte from its lowest bit up.
path_decode_lsb_first(encoded, bit_length) ==
    [idx \in 1..bit_length |->
        (U8(encoded[((idx - 1) \div 8) + 1]) \div (2 ^ ((idx - 1) % 8))) % 2]

path_decode(encoded, bit_length) ==
    [idx \in 1..bit_length |->
        (U8(encoded[((idx - 1) \div 8) + 1]) \div (2 ^ (7 - ((idx - 1) % 8)))) % 2]

\* serialize_into without the varint header of the 33..159 gap: every length up
\* to 159 gets the one-byte header.
serialize_into_one_byte_gap(shared_path_bits) ==
    IF shared_path_bits = <<>> THEN <<>>
    ELSE LET bit_length == Len(shared_path_bits)
             header == IF bit_length >= 1 /\ bit_length <= 159
                          THEN <<Byte(bit_length - 1)>>
                       ELSE IF bit_length >= 160 /\ bit_length <= 382
                          THEN <<Byte(bit_length - 128)>>
                       ELSE <<Byte(255)>> \o varint_encode(bit_length)
         IN header \o path_encode(shared_path_bits)

serialize_into(shared_path_bits) ==
    IF shared_path_bits = <<>> THEN <<>>
    ELSE LET bit_length == Len(shared_path_bits)
             header == IF bit_length >= 1 /\ bit_length <= 32
                          THEN <<Byte(bit_length - 1)>>
                       ELSE IF bit_length >= 160 /\ bit_length <= 382
                          THEN <<Byte(bit_length - 128)>>
                       ELSE <<Byte(255)>> \o varint_encode(bit_length)
         IN header \o path_encode(shared_path_bits)

read_path_bit_length(input, offset) ==
    IF offset >= Len(input) THEN <<"Err", "shared path prefix is truncated">>
    ELSE LET first == U8(input[offset + 1]) IN
         IF first <= 31 THEN <<"Ok", first + 1, offset + 1>>
         ELSE IF first <= 254 THEN <<"Ok", first + 128, offset + 1>>
         ELSE varint_decode_from_slice(input, offset + 1)

\* Returns <<"Ok", bits, offset'>> or <<"Err", msg>>.
deserialize_from_slice(input, offset, shared_prefix_present) ==
    LET Read(len) ==
            IF len[1] = "Err" THEN len
            ELSE LET Decoded(bit_length, start, end) ==
                         IF end > Len(input)
                         THEN <<"Err", "shared path encoded bytes are truncated">>
                         ELSE <<"Ok", path_decode(Slice(input, start, end), bit_length), end>>
                 IN Decoded(len[2], len[3], len[3] + calculate_encoded_length(len[2]))
    IN IF ~shared_prefix_present THEN <<"Ok", <<>>, offset>>
       ELSE Read(read_path_bit_length(input, offset))


-----------------------------------------------------------------------------
(* node_ref.rs                                                             *)

None == <<"None">>
Some(x) == <<"Some", x>>

ValueRef_Empty == <<"Empty">>
ValueRef_Inline(bytes) == <<"Inline", bytes>>
ValueRef_Hashed(hash, length) == <<"Hashed", hash, length>>

ValueRef_inline(value) ==
    IF value = <<>> THEN ValueRef_Empty ELSE ValueRef_Inline(value)

\* ValueRef::len: Option<usize>
value_len(value) ==
    CASE value[1] = "Empty" -> Some(0)
      [] value[1] = "Inline" -> Some(Len(value[2]))
      [] value[1] = "Hashed" -> value[3]

value_has_value(value) ==
    CASE value[1] = "Empty" -> FALSE
      [] value[1] = "Inline" -> value[2] # <<>>
      [] value[1] = "Hashed" -> TRUE

\* has_long_value that counts a value of exactly LONG_VALUE_THRESHOLD bytes as long.
value_has_long_value_from_threshold(value) ==
    LET l == value_len(value) IN
    IF l[1] = "Some" THEN l[2] >= LONG_VALUE_THRESHOLD ELSE TRUE

value_has_long_value(value) ==
    LET l == value_len(value) IN
    IF l[1] = "Some" THEN l[2] > LONG_VALUE_THRESHOLD ELSE TRUE

\* ValueRef::hash: Option<[u8; 32]>
value_hash(value) ==
    CASE value[1] = "Empty" -> None
      [] value[1] = "Inline" -> Some(keccak256(value[2]))
      [] value[1] = "Hashed" -> Some(value[2])

\* ValueRef::inline_bytes: Option<&[u8]>
inline_bytes(value) ==
    IF value[1] = "Inline" THEN Some(value[2]) ELSE None

NodeReference_Empty == <<"Empty">>
NodeReference_Embedded(node) == <<"Embedded", node>>
NodeReference_Hashed(hash) == <<"Hashed", hash>>

TrieNode_new(shared_path, value, left, right) ==
    [shared_path |-> shared_path, value |-> value, left |-> left, right |-> right]

TrieNode_empty ==
    TrieNode_new(<<>>, ValueRef_Empty, NodeReference_Empty, NodeReference_Empty)

is_terminal(node) == node.left[1] = "Empty" /\ node.right[1] = "Empty"

value_length(node) ==
    LET l == value_len(node.value) IN IF l[1] = "Some" THEN l[2] ELSE 0

has_long_value(node) == value_has_long_value(node.value)

-----------------------------------------------------------------------------
(* codec_rskip107.rs                                                       *)

VERSION_FLAG == 64
VERSION_MASK == 192
LONG_VALUE_FLAG == 32
SHARED_PREFIX_FLAG == 16
LEFT_PRESENT_FLAG == 8
RIGHT_PRESENT_FLAG == 4
LEFT_EMBEDDED_FLAG == 2
RIGHT_EMBEDDED_FLAG == 1

\* (flags & flag) == flag for a one-bit flag.
HasFlag(flags, flag) == (flags \div flag) % 2 = 1

ChildEncoding_Empty == <<"Empty">>
ChildEncoding_Embedded(serialized) == <<"Embedded", serialized>>
ChildEncoding_Hashed(hash) == <<"Hashed", hash>>

is_present(encoding) == encoding[1] # "Empty"
is_embedded(encoding) == encoding[1] = "Embedded"

encode_u24(value) ==
    IF value > 16777215 THEN <<"Err", "value does not fit in uint24">>
    ELSE <<"Ok", << Byte((value \div 65536) % 256),
                    Byte((value \div 256) % 256),
                    Byte(value % 256) >> >>

read_u24(payload, offset) ==
    IF offset + 3 > Len(payload) THEN <<"Err", "uint24 payload is truncated">>
    ELSE <<"Ok", U8(payload[offset + 1]) * 65536 + U8(payload[offset + 2]) * 256
                 + U8(payload[offset + 3]), offset + 3>>

read_hash(payload, offset) ==
    IF offset + HASH_SIZE > Len(payload) THEN <<"Err", "hash payload is truncated">>
    ELSE <<"Ok", Slice(payload, offset, offset + HASH_SIZE), offset + HASH_SIZE>>

encode_reference(reference) ==
    CASE reference[1] = "Empty" -> <<"Ok", <<>> >>
      [] reference[1] = "Embedded" ->
            IF Len(reference[2]) > 255
            THEN <<"Err", "embedded node length does not fit in uint8">>
            ELSE <<"Ok", <<Byte(Len(reference[2]))>> \o reference[2]>>
      [] reference[1] = "Hashed" -> <<"Ok", reference[2]>>

\* Rskip107Codec::encode_node: <<"Ok", bytes>> or <<"Err", msg>>.
encode_node(node, left, right, children_size) ==
    LET Flags(long, left_present, right_present) ==
            VERSION_FLAG
            + (IF long THEN LONG_VALUE_FLAG ELSE 0)
            + (IF node.shared_path # <<>> THEN SHARED_PREFIX_FLAG ELSE 0)
            + (IF left_present THEN LEFT_PRESENT_FLAG ELSE 0)
            + (IF right_present THEN RIGHT_PRESENT_FLAG ELSE 0)
            + (IF is_embedded(left) THEN LEFT_EMBEDDED_FLAG ELSE 0)
            + (IF is_embedded(right) THEN RIGHT_EMBEDDED_FLAG ELSE 0)
        Long(head, hash, length) ==
            IF hash[1] = "None"
            THEN <<"Err", "long value node missing value hash">>
            ELSE IF length[1] = "None"
            THEN <<"Err", "long value node missing value length">>
            ELSE LET Sized(u24) == IF u24[1] = "Err" THEN u24
                                   ELSE <<"Ok", head \o hash[2] \o u24[2]>>
                 IN Sized(encode_u24(length[2]))
        Value(long, head, inline) ==
            IF long THEN Long(head, value_hash(node.value), value_len(node.value))
            ELSE IF inline[1] = "Some" THEN <<"Ok", head \o inline[2]>>
            ELSE <<"Ok", head>>
        Children(long, left_present, right_present, l, r) ==
            IF (left_present \/ right_present) /\ children_size[1] = "None"
            THEN <<"Err", "childrenSize is required for non-terminal node">>
            ELSE IF l[1] = "Err" THEN l
            ELSE IF r[1] = "Err" THEN r
            ELSE Value(long,
                       <<Byte(Flags(long, left_present, right_present))>>
                           \o serialize_into(node.shared_path)
                           \o l[2] \o r[2]
                           \o (IF left_present \/ right_present
                               THEN varint_encode(IF children_size[1] = "Some"
                                                  THEN children_size[2] ELSE 0)
                               ELSE <<>>),
                       inline_bytes(node.value))
    IN Children(has_long_value(node), is_present(left), is_present(right),
                encode_reference(left), encode_reference(right))


is_rskip107_message(payload) ==
    payload # <<>> /\ (U8(payload[1]) \div 64) % 4 = 1

RECURSIVE Rskip107_decode_node(_)

\* Rskip107Codec::decode_reference: <<"Ok", reference, offset'>> or <<"Err", msg>>.
decode_reference(payload, offset, embedded) ==
    LET Node(node, end) ==
            IF node[1] = "Err" THEN node
            ELSE <<"Ok", NodeReference_Embedded(node[2]), end>>
        Embedded(end) ==
            IF end > Len(payload)
            THEN <<"Err", "embedded node payload is truncated">>
            ELSE Node(Rskip107_decode_node(Slice(payload, offset + 1, end)), end)
        Hashed(hash) ==
            IF hash[1] = "Err" THEN hash
            ELSE <<"Ok", NodeReference_Hashed(hash[2]), hash[3]>>
    IN IF embedded
       THEN IF offset >= Len(payload)
            THEN <<"Err", "embedded node length is truncated">>
            ELSE Embedded(offset + 1 + U8(payload[offset + 1]))
       ELSE Hashed(read_hash(payload, offset))

Rskip107_decode_node(payload) ==
    LET LongLength(path, left, right, hash, len) ==
            IF len[1] = "Err" THEN len
            ELSE IF len[3] # Len(payload)
            THEN <<"Err", "RSKIP107 node payload has trailing data">>
            ELSE <<"Ok", TrieNode_new(path[2], ValueRef_Hashed(hash[2], Some(len[2])),
                                      left[2], right[2])>>
        LongHash(path, left, right, hash) ==
            IF hash[1] = "Err" THEN hash
            ELSE LongLength(path, left, right, hash, read_u24(payload, hash[3]))
        Value(long, path, left, right, offset) ==
            IF long THEN LongHash(path, left, right, read_hash(payload, offset))
            ELSE IF offset < Len(payload)
            THEN <<"Ok", TrieNode_new(path[2],
                                      ValueRef_inline(Slice(payload, offset, Len(payload))),
                                      left[2], right[2])>>
            ELSE <<"Ok", TrieNode_new(path[2], ValueRef_Empty, left[2], right[2])>>
        Size(long, path, left, right, size) ==
            IF size[1] = "Err" THEN size
            ELSE Value(long, path, left, right, size[3])
        Right(flags, path, left, right) ==
            IF right[1] = "Err" THEN right
            ELSE Size(HasFlag(flags, LONG_VALUE_FLAG), path, left, right,
                      IF HasFlag(flags, LEFT_PRESENT_FLAG) \/ HasFlag(flags, RIGHT_PRESENT_FLAG)
                      THEN varint_decode_from_slice(payload, right[3])
                      ELSE <<"Ok", 0, right[3]>>)
        Left(flags, path, left) ==
            IF left[1] = "Err" THEN left
            ELSE Right(flags, path, left,
                       IF HasFlag(flags, RIGHT_PRESENT_FLAG)
                       THEN decode_reference(payload, left[3],
                                             HasFlag(flags, RIGHT_EMBEDDED_FLAG))
                       ELSE <<"Ok", NodeReference_Empty, left[3]>>)
        Path(flags, path) ==
            IF path[1] = "Err" THEN path
            ELSE Left(flags, path,
                      IF HasFlag(flags, LEFT_PRESENT_FLAG)
                      THEN decode_reference(payload, path[3],
                                            HasFlag(flags, LEFT_EMBEDDED_FLAG))
                      ELSE <<"Ok", NodeReference_Empty, path[3]>>)
        Flags(flags) ==
            Path(flags, deserialize_from_slice(payload, 1, HasFlag(flags, SHARED_PREFIX_FLAG)))
    IN IF payload = <<>> THEN <<"Err", "RSKIP107 node payload is empty">>
       ELSE Flags(U8(payload[1]))


-----------------------------------------------------------------------------
(* codec_orchid.rs                                                         *)

ARITY == 2
MESSAGE_HEADER_LENGTH == 6

is_orchid_message(payload) == payload # <<>> /\ U8(payload[1]) = ARITY

\* Big-endian u16 at offset.
read_u16(payload, offset) ==
    IF offset + 2 > Len(payload) THEN <<"Err", "orchid uint16 field is truncated">>
    ELSE <<"Ok", U8(payload[offset + 1]) * 256 + U8(payload[offset + 2]), offset + 2>>

orchid_read_hash(payload, offset) ==
    IF offset + HASH_SIZE > Len(payload) THEN <<"Err", "orchid hash field is truncated">>
    ELSE <<"Ok", Slice(payload, offset, offset + HASH_SIZE), offset + HASH_SIZE>>

\* OrchidCodec::decode_node: <<"Ok", node>> or <<"Err", msg>>.
Orchid_decode_node(payload) ==
    LET Value(long, shared_path, left_ref, right_ref, offset) ==
            IF long
            THEN LET Hashed(hash) ==
                         IF hash[1] = "Err" THEN hash
                         ELSE <<"Ok", TrieNode_new(shared_path,
                                                   ValueRef_Hashed(hash[2], None),
                                                   left_ref, right_ref)>>
                 IN Hashed(orchid_read_hash(payload, offset))
            ELSE IF offset < Len(payload)
            THEN <<"Ok", TrieNode_new(shared_path,
                                      ValueRef_inline(Slice(payload, offset, Len(payload))),
                                      left_ref, right_ref)>>
            ELSE <<"Ok", TrieNode_new(shared_path, ValueRef_Empty, left_ref, right_ref)>>
        Right(long, bhashes, shared_path, left, right) ==
            IF right[1] = "Err" THEN right
            ELSE Value(long, shared_path,
                       IF bhashes % 2 = 1
                       THEN NodeReference_Hashed(left[2]) ELSE NodeReference_Empty,
                       IF (bhashes \div 2) % 2 = 1
                       THEN NodeReference_Hashed(right[2]) ELSE NodeReference_Empty,
                       right[3])
        Left(long, bhashes, shared_path, left) ==
            IF left[1] = "Err" THEN left
            ELSE Right(long, bhashes, shared_path, left,
                       IF (bhashes \div 2) % 2 = 1
                       THEN orchid_read_hash(payload, left[3])
                       ELSE <<"Ok", <<>>, left[3]>>)
        Header(long, bhashes, bits_length, encoded_length, end) ==
            IF encoded_length > 0 /\ end > Len(payload)
            THEN <<"Err", "orchid payload shared path is truncated">>
            ELSE Left(long, bhashes,
                      IF encoded_length > 0
                      THEN path_decode(Slice(payload, 6, end), bits_length)
                      ELSE <<>>,
                      IF bhashes % 2 = 1
                      THEN orchid_read_hash(payload, end)
                      ELSE <<"Ok", <<>>, end>>)
        Lengths(flags, bhashes, bits_length, encoded_length) ==
            Header((flags \div 2) % 2 = 1, bhashes, bits_length, encoded_length,
                   6 + encoded_length)
        Fields(flags, bhashes, bits_length) ==
            Lengths(flags, bhashes, bits_length, calculate_encoded_length(bits_length))
    IN IF Len(payload) < MESSAGE_HEADER_LENGTH THEN <<"Err", "orchid payload is too short">>
       ELSE IF U8(payload[1]) # ARITY THEN <<"Err", "invalid orchid arity">>
       ELSE Fields(U8(payload[2]), read_u16(payload, 2)[2], read_u16(payload, 4)[2])


\* Big-endian bytes of a u16.
u16_to_be_bytes(n) == B(<<n \div 256, n % 256>>)

\* OrchidCodec::encode_node: <<"Ok", bytes>> or <<"Err", msg>>; left_hash and
\* right_hash are Option<[u8; 32]>.
Orchid_encode_node(node, left_hash, right_hash, secure) ==
    LET Value(head, long, hash, inline) ==
            IF long
            THEN IF hash[1] = "None" THEN <<"Err", "long orchid value is missing hash">>
                 ELSE <<"Ok", head \o hash[2]>>
            ELSE IF inline[1] = "Some" THEN <<"Ok", head \o inline[2]>>
            ELSE <<"Ok", head>>
        Header(long, shared_path_len) ==
            Value(B(<<ARITY, (IF secure THEN 1 ELSE 0) + (IF long THEN 2 ELSE 0)>>)
                      \o u16_to_be_bytes((IF left_hash[1] = "Some" THEN 1 ELSE 0)
                                         + (IF right_hash[1] = "Some" THEN 2 ELSE 0))
                      \o u16_to_be_bytes(shared_path_len)
                      \o (IF shared_path_len > 0 THEN path_encode(node.shared_path) ELSE <<>>)
                      \o (IF left_hash[1] = "Some" THEN left_hash[2] ELSE <<>>)
                      \o (IF right_hash[1] = "Some" THEN right_hash[2] ELSE <<>>),
                  long, value_hash(node.value), inline_bytes(node.value))
    IN IF Len(node.shared_path) > 65535
       THEN <<"Err", "orchid shared path length does not fit in uint16">>
       ELSE Header(has_long_value(node), Len(node.shared_path))

-----------------------------------------------------------------------------
(* The store: the InMemoryStore of the tests, two maps keyed by hash.      *)

EmptyMap == [h \in {} |-> <<>>]

InMemoryStore_default == [nodes |-> EmptyMap, values |-> EmptyMap]

load_raw_node(store, hash) ==
    IF hash \in DOMAIN store.nodes THEN Some(store.nodes[hash]) ELSE None

load_raw_value(store, hash) ==
    IF hash \in DOMAIN store.values THEN Some(store.values[hash]) ELSE None

save_raw_node(store, hash, serialized_node) ==
    [store EXCEPT !.nodes = (hash :> serialized_node) @@ store.nodes]

save_raw_value(store, hash, value) ==
    [store EXCEPT !.values = (hash :> value) @@ store.values]

\* One call made to the store adapter, as it appears in an operation's trace.
StoreCall(name, hash, bytes) == <<name, hash, bytes>>

-----------------------------------------------------------------------------
(* core_trie.rs: the entries map                                           *)

\* Vec<u8> ordering of the BTreeMap keys: a < b.
RECURSIVE LexLess(_, _)
LexLess(a, b) ==
    IF a = <<>> THEN b # <<>>
    ELSE IF b = <<>> THEN FALSE
    ELSE IF U8(a[1]) # U8(b[1]) THEN U8(a[1]) < U8(b[1])
    ELSE LexLess(Tail(a), Tail(b))

\* The keys of a BTreeMap in iteration order.
RECURSIVE SortedKeys(_)
SortedKeys(keys) ==
    IF keys = {} THEN <<>>
    ELSE LET m == CHOOSE k \in keys : \A o \in keys : o = k \/ LexLess(k, o)
         IN <<m>> \o SortedKeys(keys \ {m})

\* entries restricted to the keys in keep.
Restrict(entries, keep) == [k \in (DOMAIN entries) \cap keep |-> entries[k]]

\* map_insert that keeps the value of a key already there.
map_insert_keeps_old(entries, key, value) == entries @@ (key :> value)

map_insert(entries, key, value) == (key :> value) @@ entries

map_remove(entries, key) == Restrict(entries, (DOMAIN entries) \ {key})

map_get(entries, key) == IF key \in DOMAIN entries THEN Some(entries[key]) ELSE None

starts_with(key, prefix) ==
    Len(key) >= Len(prefix) /\ SubSeq(key, 1, Len(prefix)) = prefix

Unitrie_new ==
    [entries |-> EmptyMap,
     materialized |-> None,
     persisted_node_hashes |-> {},
     persisted_value_hashes |-> {}]

get(trie, key) == map_get(trie.entries, key)

\* put that stores the empty value as it stores any other.
put_stores_empty(trie, key, value) ==
    [trie EXCEPT !.entries = map_insert(@, key, value), !.materialized = None]

\* put that leaves the materialized record in place.
put_keeps_materialized(trie, key, value) ==
    [trie EXCEPT !.entries = IF value = <<>> THEN map_remove(@, key)
                             ELSE map_insert(@, key, value)]

\* put that also forgets what the core has persisted.
put_forgets_persisted(trie, key, value) ==
    [trie EXCEPT !.entries = IF value = <<>> THEN map_remove(@, key)
                             ELSE map_insert(@, key, value),
                 !.materialized = None,
                 !.persisted_node_hashes = {},
                 !.persisted_value_hashes = {}]

put(trie, key, value) ==
    [trie EXCEPT !.entries = IF value = <<>> THEN map_remove(@, key)
                             ELSE map_insert(@, key, value),
                 !.materialized = None]

\* delete that leaves the materialized record in place.
delete_keeps_materialized(trie, key) ==
    [trie EXCEPT !.entries = map_remove(@, key)]

\* delete that removes every key the given key is a prefix of.
delete_by_prefix(trie, key) ==
    [trie EXCEPT !.entries = Restrict(@, {k \in DOMAIN @ : ~starts_with(k, key)}),
                 !.materialized = None]

delete(trie, key) ==
    [trie EXCEPT !.entries = map_remove(@, key), !.materialized = None]

\* prefix_upper_bound that increments the last byte only, saturating at 0xff.
prefix_upper_bound_last_byte(prefix) ==
    IF prefix = <<>> THEN None
    ELSE Some([i \in 1..Len(prefix) |->
                 IF i = Len(prefix) THEN Byte(Min(U8(prefix[i]) + 1, 255)) ELSE prefix[i]])

\* Option<Vec<u8>>: prefix with its last non-0xff byte incremented, truncated there.
prefix_upper_bound(prefix) ==
    LET candidates == {i \in 1..Len(prefix) : U8(prefix[i]) # 255} IN
    IF candidates = {} THEN None
    ELSE LET index == CHOOSE i \in candidates : \A j \in candidates : j <= i
         IN Some([i \in 1..index |->
                    IF i = index THEN Byte(Min(U8(prefix[i]) + 1, 255)) ELSE prefix[i]])

\* BTreeMap::split_off(key): <<what stays (keys < key), what is returned (keys >= key)>>.
split_off(entries, key) ==
    LET low == {k \in DOMAIN entries : LexLess(k, key)}
    IN <<Restrict(entries, low), Restrict(entries, (DOMAIN entries) \ low)>>

\* BTreeMap::append(other): other's entries win.
append(entries, other) == other @@ entries

\* delete_recursive that clears the materialized record whether or not a key matched.
delete_recursive_always_clears(trie, prefix) ==
    [trie EXCEPT !.entries = Restrict(@, {k \in DOMAIN @ : ~starts_with(k, prefix)}),
                 !.materialized = None]

delete_recursive(trie, prefix) ==
    LET Removed(kept, tail) ==
            IF DOMAIN tail = {}
            THEN [trie EXCEPT !.entries = append(kept, tail)]
            ELSE [trie EXCEPT !.entries = kept, !.materialized = None]
        \* tail after its own split_off, when there is an upper bound
        Bounded(first, second) == Removed(append(first[1], second[2]), second[1])
        Upper(first, upper_bound) ==
            IF upper_bound[1] = "Some"
            THEN Bounded(first, split_off(first[2], upper_bound[2]))
            ELSE Removed(first[1], first[2])
        First(first) == Upper(first, prefix_upper_bound(prefix))
    IN IF DOMAIN trie.entries = {} THEN trie
       ELSE IF prefix = <<>>
       THEN [trie EXCEPT !.entries = EmptyMap, !.materialized = None]
       ELSE First(split_off(trie.entries, prefix))



get_value_length(trie, key) ==
    IF key \in DOMAIN trie.entries THEN Some(Len(trie.entries[key])) ELSE None

get_value_hash(trie, key) ==
    IF key \in DOMAIN trie.entries THEN Some(keccak256(trie.entries[key])) ELSE None

key_count(trie) == Cardinality(DOMAIN trie.entries)

-----------------------------------------------------------------------------
(* core_trie.rs: the materializer                                          *)

\* Result::expect / Option::expect: the payload, or a panic that nothing handles.
expect(result) == IF result[1] \in {"Ok", "Some"} THEN result[2] ELSE <<"panic", result>>

SetMin(S) == CHOOSE x \in S : \A y \in S : x <= y

\* entries: a sequence of <<bits, value>>; depth: bits already consumed.
\* longest_common_suffix_length that finds no common bits.
no_common_suffix_length(entries, depth) == 0

longest_common_suffix_length(entries, depth) ==
    IF entries = <<>> THEN 0
    ELSE LET first == entries[1][1] IN
         IF depth >= Len(first) THEN 0
         ELSE LET max_common_len ==
                      SetMin({ IF Len(entries[i][1]) >= depth
                               THEN Len(entries[i][1]) - depth ELSE 0 :
                               i \in 1..Len(entries) })
                  differ == { idx \in 0..(max_common_len - 1) :
                                \E i \in 1..Len(entries) :
                                    entries[i][1][depth + idx + 1] # first[depth + idx + 1] }
              IN IF differ = {} THEN max_common_len ELSE SetMin(differ)

RECURSIVE build_node(_, _)
build_node(entries, depth) ==
    LET Children(node_depth, here, left_entries, right_entries) ==
            TrieNode_new(
                IF entries = <<>> THEN <<>> ELSE SubSeq(entries[1][1], depth + 1, node_depth),
                ValueRef_inline(IF here = <<>> THEN <<>> ELSE here[Len(here)][2]),
                IF left_entries = <<>> THEN NodeReference_Empty
                ELSE NodeReference_Embedded(build_node(left_entries, node_depth + 1)),
                IF right_entries = <<>> THEN NodeReference_Empty
                ELSE NodeReference_Embedded(build_node(right_entries, node_depth + 1)))
        Node(node_depth) ==
            Children(node_depth,
                     SelectSeq(entries, LAMBDA e : Len(e[1]) = node_depth),
                     SelectSeq(entries,
                               LAMBDA e : Len(e[1]) # node_depth /\ e[1][node_depth + 1] = 0),
                     SelectSeq(entries,
                               LAMBDA e : Len(e[1]) # node_depth /\ e[1][node_depth + 1] # 0))
    IN Node(depth + longest_common_suffix_length(entries, depth))

build_root_node(entries) ==
    IF DOMAIN entries = {} THEN None
    ELSE LET keys == SortedKeys(DOMAIN entries)
             bit_entries == [i \in 1..Len(keys) |->
                               <<path_decode(keys[i], Len(keys[i]) * 8), entries[keys[i]]>>]
         IN Some(build_node(bit_entries, 0))

NodeMetadata(hash, serialized, reference_size, embeddable) ==
    [hash |-> hash, serialized |-> serialized,
     reference_size |-> reference_size, embeddable |-> embeddable]

RECURSIVE compute_node_metadata(_)

\* compute_child_encoding that names every child by its hash.
compute_child_encoding_always_hashed(reference) ==
    LET Child(metadata) ==
            IF metadata[1] = "Err" THEN metadata
            ELSE <<"Ok", ChildEncoding_Hashed(metadata[2].hash), metadata[2].reference_size>>
    IN CASE reference[1] = "Empty" -> <<"Ok", ChildEncoding_Empty, 0>>
         [] reference[1] = "Embedded" -> Child(compute_node_metadata(reference[2]))
         [] reference[1] = "Hashed" ->
               <<"Err", "cannot compute node metadata with unresolved hashed node reference">>

\* <<"Ok", encoding, size>> or <<"Err", msg>>
compute_child_encoding(reference) ==
    LET Child(metadata) ==
            IF metadata[1] = "Err" THEN metadata
            ELSE IF metadata[2].embeddable
            THEN <<"Ok", ChildEncoding_Embedded(metadata[2].serialized),
                   metadata[2].reference_size>>
            ELSE <<"Ok", ChildEncoding_Hashed(metadata[2].hash),
                   metadata[2].reference_size>>
    IN CASE reference[1] = "Empty" -> <<"Ok", ChildEncoding_Empty, 0>>
         [] reference[1] = "Embedded" -> Child(compute_node_metadata(reference[2]))
         [] reference[1] = "Hashed" ->
               <<"Err", "cannot compute node metadata with unresolved hashed node reference">>

compute_node_metadata(node) ==
    LET Serialized(children_size, serialized) ==
            IF serialized[1] = "Err" THEN serialized
            ELSE <<"Ok", NodeMetadata(
                     keccak256(serialized[2]),
                     serialized[2],
                     (IF children_size[1] = "Some" THEN children_size[2] ELSE 0)
                         + (IF has_long_value(node) THEN value_length(node) ELSE 0)
                         + Len(serialized[2]),
                     is_terminal(node)
                         /\ Len(serialized[2]) <= MAX_EMBEDDED_NODE_SIZE_IN_BYTES)>>
        Children(left, right, children_size) ==
            Serialized(children_size, encode_node(node, left[2], right[2], children_size))
        Right(left, right) ==
            IF right[1] = "Err" THEN right
            ELSE Children(left, right,
                          IF is_terminal(node) THEN None ELSE Some(left[3] + right[3]))
        Left(left) ==
            IF left[1] = "Err" THEN left
            ELSE Right(left, compute_child_encoding(node.right))
    IN Left(compute_child_encoding(node.left))


MaterializedTrie(root_node, root_hash) == [root_node |-> root_node, root_hash |-> root_hash]

\* Unitrie::materialize: the trie with its record filled in.
materialize(trie) ==
    LET Built(root_node) ==
            [trie EXCEPT !.materialized =
                Some(MaterializedTrie(
                         root_node,
                         IF root_node = None THEN empty_trie_hash
                         ELSE expect(compute_node_metadata(root_node[2])).hash))]
    IN IF trie.materialized = None THEN Built(build_root_node(trie.entries)) ELSE trie

root_hash(trie) ==
    LET Materialized(materialized) == <<materialized.materialized[2].root_hash, materialized>>
    IN Materialized(materialize(trie))


-----------------------------------------------------------------------------
(* core_trie.rs: the persistence walker                                    *)

SaveStats(nodes_visited, nodes_written, values_written) ==
    [nodes_visited |-> nodes_visited, nodes_written |-> nodes_written,
     values_written |-> values_written]

SaveStats_default == SaveStats(0, 0, 0)

\* What a save threads through the walk: the store, the two persisted-hash sets of
\* the trie, and the store calls made so far.
SaveCtx(store, persisted_node_hashes, persisted_value_hashes, calls) ==
    [store |-> store,
     persisted_node_hashes |-> persisted_node_hashes,
     persisted_value_hashes |-> persisted_value_hashes,
     calls |-> calls]

\* persist_long_value that never writes the value.
persist_long_value_unwritten(node, ctx) == <<ctx, 0>>

\* persist_long_value that ignores persisted_value_hashes.
persist_long_value_always(node, ctx) ==
    LET inline == inline_bytes(node.value) IN
    IF inline[1] = "Some" /\ Len(inline[2]) > LONG_VALUE_THRESHOLD
    THEN LET value_hash_ == keccak256(inline[2]) IN
         <<[ctx EXCEPT !.persisted_value_hashes = @ \cup {value_hash_},
                       !.store = save_raw_value(@, value_hash_, inline[2]),
                       !.calls = Append(@, StoreCall("save_raw_value", value_hash_,
                                                     inline[2]))],
           1>>
    ELSE <<ctx, 0>>

\* persist_long_value that files every long value under the empty-trie hash.
persist_long_value_misfiled(node, ctx) ==
    LET inline == inline_bytes(node.value) IN
    IF inline[1] = "Some" /\ Len(inline[2]) > LONG_VALUE_THRESHOLD
          /\ keccak256(inline[2]) \notin ctx.persisted_value_hashes
    THEN <<[ctx EXCEPT !.persisted_value_hashes = @ \cup {keccak256(inline[2])},
                       !.store = save_raw_value(@, empty_trie_hash, inline[2]),
                       !.calls = Append(@, StoreCall("save_raw_value", empty_trie_hash,
                                                     inline[2]))],
           1>>
    ELSE <<ctx, 0>>

\* The long-value step of persist_node_recursive: the context afterwards and the
\* number of values written (0 or 1).
persist_long_value(node, ctx) ==
    LET Hashed(value, value_hash_) ==
            IF value_hash_ \notin ctx.persisted_value_hashes
            THEN <<[ctx EXCEPT !.persisted_value_hashes = @ \cup {value_hash_},
                               !.store = save_raw_value(@, value_hash_, value),
                               !.calls = Append(@, StoreCall("save_raw_value", value_hash_,
                                                             value))],
                   1>>
            ELSE <<ctx, 0>>
        Inline(inline) ==
            IF inline[1] = "Some" /\ Len(inline[2]) > LONG_VALUE_THRESHOLD
            THEN Hashed(inline[2], keccak256(inline[2]))
            ELSE <<ctx, 0>>
    IN Inline(inline_bytes(node.value))

\* persist_node_write that also writes a node that is embeddable and not the root.
persist_node_write_embeddable_too(hash, serialized, embeddable, is_root, ctx) ==
    IF is_root \/ hash \notin ctx.persisted_node_hashes
    THEN <<[ctx EXCEPT !.persisted_node_hashes = @ \cup {hash},
                       !.store = save_raw_node(@, hash, serialized),
                       !.calls = Append(@, StoreCall("save_raw_node", hash, serialized))],
           1>>
    ELSE <<ctx, 0>>

\* persist_node_write that does not count the write of a node below the root.
persist_node_write_uncounted(hash, serialized, embeddable, is_root, ctx) ==
    IF is_root \/ ~embeddable
    THEN LET inserted == [ctx EXCEPT !.persisted_node_hashes = @ \cup {hash}] IN
         IF is_root \/ hash \notin ctx.persisted_node_hashes
         THEN <<[inserted EXCEPT !.store = save_raw_node(@, hash, serialized),
                                 !.calls = Append(@, StoreCall("save_raw_node", hash,
                                                               serialized))],
                IF is_root THEN 1 ELSE 0>>
         ELSE <<inserted, 0>>
    ELSE <<ctx, 0>>

persist_node_write(hash, serialized, embeddable, is_root, ctx) ==
    IF is_root \/ ~embeddable
    THEN LET should_write == IF is_root THEN TRUE
                             ELSE hash \notin ctx.persisted_node_hashes
             inserted == [ctx EXCEPT !.persisted_node_hashes = @ \cup {hash}]
         IN IF should_write
            THEN <<[inserted EXCEPT !.store = save_raw_node(@, hash, serialized),
                                    !.calls = Append(@, StoreCall("save_raw_node", hash,
                                                                  serialized))],
                   1>>
            ELSE <<inserted, 0>>
    ELSE <<ctx, 0>>

RECURSIVE persist_node_recursive(_, _, _)

\* <<"Ok", encoding, size, stats, ctx'>> or <<"Err", msg>>
persist_child_reference(reference, ctx) ==
    LET Child(child) ==
            IF child[1] = "Err" THEN child
            ELSE IF child[2].embeddable
            THEN <<"Ok", ChildEncoding_Embedded(child[2].serialized),
                   child[2].reference_size, child[3], child[4]>>
            ELSE <<"Ok", ChildEncoding_Hashed(child[2].hash),
                   child[2].reference_size, child[3], child[4]>>
    IN CASE reference[1] = "Empty" ->
               <<"Ok", ChildEncoding_Empty, 0, SaveStats_default, ctx>>
         [] reference[1] = "Embedded" ->
               Child(persist_node_recursive(reference[2], ctx, FALSE))
         [] reference[1] = "Hashed" ->
               <<"Ok", ChildEncoding_Hashed(reference[2]), 0, SaveStats_default,
                 [ctx EXCEPT !.persisted_node_hashes = @ \cup {reference[2]}]>>

\* persist_node_recursive that writes the node before its long value.
persist_node_recursive_node_first(node, ctx, is_root) ==
    LET Written(left, right, children_size, hash, serialized, embeddable, value_step,
                node_step) ==
            <<"Ok",
              NodeMetadata(
                  hash, serialized,
                  (IF children_size[1] = "Some" THEN children_size[2] ELSE 0)
                      + (IF has_long_value(node) THEN value_length(node) ELSE 0)
                      + Len(serialized),
                  embeddable),
              SaveStats(
                  1 + left[4].nodes_visited + right[4].nodes_visited,
                  left[4].nodes_written + right[4].nodes_written + node_step[2],
                  left[4].values_written + right[4].values_written + value_step[2]),
              value_step[1]>>
        Node(left, right, children_size, hash, serialized, embeddable, node_step) ==
            Written(left, right, children_size, hash, serialized, embeddable,
                    persist_long_value(node, node_step[1]), node_step)
        Serialized(left, right, children_size, serialized) ==
            IF serialized[1] = "Err" THEN serialized
            ELSE Node(left, right, children_size,
                      keccak256(serialized[2]),
                      serialized[2],
                      is_terminal(node)
                          /\ Len(serialized[2]) <= MAX_EMBEDDED_NODE_SIZE_IN_BYTES,
                      persist_node_write(keccak256(serialized[2]), serialized[2],
                                         is_terminal(node)
                                             /\ Len(serialized[2])
                                                    <= MAX_EMBEDDED_NODE_SIZE_IN_BYTES,
                                         is_root, right[5]))
        Children(left, right, children_size) ==
            Serialized(left, right, children_size,
                       encode_node(node, left[2], right[2], children_size))
        Right(left, right) ==
            IF right[1] = "Err" THEN right
            ELSE Children(left, right,
                          IF is_terminal(node) THEN None ELSE Some(left[3] + right[3]))
        Left(left) ==
            IF left[1] = "Err" THEN left
            ELSE Right(left, persist_child_reference(node.right, left[5]))
    IN Left(persist_child_reference(node.left, ctx))

persist_node_recursive(node, ctx, is_root) ==
    LET Written(left, right, children_size, hash, serialized, embeddable, value_step,
                node_step) ==
            <<"Ok",
              NodeMetadata(
                  hash, serialized,
                  (IF children_size[1] = "Some" THEN children_size[2] ELSE 0)
                      + (IF has_long_value(node) THEN value_length(node) ELSE 0)
                      + Len(serialized),
                  embeddable),
              SaveStats(
                  1 + left[4].nodes_visited + right[4].nodes_visited,
                  left[4].nodes_written + right[4].nodes_written + node_step[2],
                  left[4].values_written + right[4].values_written + value_step[2]),
              node_step[1]>>
        Value(left, right, children_size, hash, serialized, embeddable, value_step) ==
            Written(left, right, children_size, hash, serialized, embeddable, value_step,
                    persist_node_write(hash, serialized, embeddable, is_root,
                                       value_step[1]))
        Serialized(left, right, children_size, serialized) ==
            IF serialized[1] = "Err" THEN serialized
            ELSE Value(left, right, children_size,
                       keccak256(serialized[2]),
                       serialized[2],
                       is_terminal(node)
                           /\ Len(serialized[2]) <= MAX_EMBEDDED_NODE_SIZE_IN_BYTES,
                       persist_long_value(node, right[5]))
        Children(left, right, children_size) ==
            Serialized(left, right, children_size,
                       encode_node(node, left[2], right[2], children_size))
        Right(left, right) ==
            IF right[1] = "Err" THEN right
            ELSE Children(left, right,
                          IF is_terminal(node) THEN None ELSE Some(left[3] + right[3]))
        Left(left) ==
            IF left[1] = "Err" THEN left
            ELSE Right(left, persist_child_reference(node.right, left[5]))
    IN Left(persist_child_reference(node.left, ctx))

save_to_store_with_stats(trie, store) ==
    LET Empty(empty_node_serialized, empty_hash) ==
            [trie |-> [trie EXCEPT
                         !.persisted_node_hashes = @ \cup {empty_hash},
                         !.materialized = Some(MaterializedTrie(None, empty_hash))],
             store |-> save_raw_node(store, empty_hash, empty_node_serialized),
             stats |-> SaveStats(1, 1, 0),
             calls |-> <<StoreCall("save_raw_node", empty_hash, empty_node_serialized)>>]
        Persisted(materialized, root_node, persisted) ==
            [trie |-> [materialized EXCEPT
                         !.persisted_node_hashes = persisted[4].persisted_node_hashes,
                         !.persisted_value_hashes = persisted[4].persisted_value_hashes,
                         !.materialized =
                             Some(MaterializedTrie(Some(root_node), persisted[2].hash))],
             store |-> persisted[4].store,
             stats |-> persisted[3],
             calls |-> persisted[4].calls]
        Root(materialized, root_node) ==
            Persisted(materialized, root_node,
                      persist_node_recursive(
                          root_node,
                          SaveCtx(store, trie.persisted_node_hashes,
                                  trie.persisted_value_hashes, <<>>),
                          TRUE))
        Materialized(materialized) ==
            Root(materialized, expect(materialized.materialized[2].root_node))
    IN IF DOMAIN trie.entries = {}
       THEN Empty(expect(encode_node(TrieNode_empty, ChildEncoding_Empty,
                                     ChildEncoding_Empty, None)),
                  empty_trie_hash)
       ELSE Materialized(materialize(trie))


-----------------------------------------------------------------------------
(* core_trie.rs: the rehydrator                                            *)

\* decode_persisted_node that takes every blob for a current one.
decode_persisted_node_current_only(payload) == Rskip107_decode_node(payload)

decode_persisted_node(payload) ==
    IF is_orchid_message(payload) THEN Orchid_decode_node(payload)
    ELSE Rskip107_decode_node(payload)

\* What a rehydration threads through the walk.
LoadCtx(node_cache, entries, persisted_node_hashes, persisted_value_hashes, calls) ==
    [node_cache |-> node_cache,
     entries |-> entries,
     persisted_node_hashes |-> persisted_node_hashes,
     persisted_value_hashes |-> persisted_value_hashes,
     calls |-> calls]

\* <<"Ok", node, ctx'>> or <<"Err", msg>>
load_node_by_hash(hash, store, ctx) ==
    LET Loaded(payload) ==
            IF payload[1] = "None"
            THEN <<"Err", "referenced node was not found in store">>
            ELSE LET Decoded(node) ==
                         IF node[1] = "Err" THEN node
                         ELSE <<"Ok", node[2],
                                [ctx EXCEPT
                                   !.calls = Append(@, StoreCall("load_raw_node", hash, <<>>)),
                                   !.node_cache = (hash :> node[2]) @@ @]>>
                 IN Decoded(decode_persisted_node(payload[2]))
    IN IF hash \in DOMAIN ctx.node_cache THEN <<"Ok", ctx.node_cache[hash], ctx>>
       ELSE Loaded(load_raw_node(store, hash))

\* resolve_node_value that takes a long value the store does not hold for an empty one.
resolve_node_value_absent_is_empty(value, store, ctx) ==
    LET Loaded(bytes) ==
            <<"Ok", IF bytes[1] = "None" THEN <<>> ELSE bytes[2],
              [ctx EXCEPT !.calls = Append(@, StoreCall("load_raw_value", value[2], <<>>))]>>
    IN CASE value[1] = "Empty" -> <<"Ok", <<>>, ctx>>
         [] value[1] = "Inline" -> <<"Ok", value[2], ctx>>
         [] value[1] = "Hashed" -> Loaded(load_raw_value(store, value[2]))

\* <<"Ok", bytes, ctx'>> or <<"Err", msg>>
resolve_node_value(value, store, ctx) ==
    LET Loaded(bytes) ==
            IF bytes[1] = "None" THEN <<"Err", "long value was not found in store">>
            ELSE <<"Ok", bytes[2],
                   [ctx EXCEPT !.calls = Append(@, StoreCall("load_raw_value", value[2],
                                                             <<>>))]>>
    IN CASE value[1] = "Empty" -> <<"Ok", <<>>, ctx>>
         [] value[1] = "Inline" -> <<"Ok", value[2], ctx>>
         [] value[1] = "Hashed" -> Loaded(load_raw_value(store, value[2]))

RECURSIVE collect_entries_from_node(_, _, _, _)

\* collect_child_entries that does not record the hash of a hashed child.
collect_child_entries_unrecorded(reference, implicit_bit, parent_bits, store, ctx) ==
    LET Loaded(child) ==
            IF child[1] = "Err" THEN child
            ELSE collect_entries_from_node(child[2], Append(parent_bits, implicit_bit),
                                           store, child[3])
    IN CASE reference[1] = "Empty" -> <<"Ok", ctx>>
         [] reference[1] = "Embedded" ->
               collect_entries_from_node(reference[2], Append(parent_bits, implicit_bit),
                                         store, ctx)
         [] reference[1] = "Hashed" ->
               Loaded(load_node_by_hash(reference[2], store, ctx))

\* <<"Ok", ctx'>> or <<"Err", msg>>
collect_child_entries(reference, implicit_bit, parent_bits, store, ctx) ==
    LET Loaded(child) ==
            IF child[1] = "Err" THEN child
            ELSE collect_entries_from_node(child[2], Append(parent_bits, implicit_bit),
                                           store, child[3])
    IN CASE reference[1] = "Empty" -> <<"Ok", ctx>>
         [] reference[1] = "Embedded" ->
               collect_entries_from_node(reference[2], Append(parent_bits, implicit_bit),
                                         store, ctx)
         [] reference[1] = "Hashed" ->
               Loaded(load_node_by_hash(
                          reference[2], store,
                          [ctx EXCEPT !.persisted_node_hashes = @ \cup {reference[2]}]))

\* <<"Ok", ctx'>> or <<"Err", msg>>
collect_entries_from_node(node, prefix_bits, store, ctx) ==
    LET full_bits == prefix_bits \o node.shared_path
        noted == IF node.value[1] = "Hashed"
                 THEN [ctx EXCEPT !.persisted_value_hashes = @ \cup {node.value[2]}]
                 ELSE ctx
        Right(left) ==
            IF left[1] = "Err" THEN left
            ELSE collect_child_entries(node.right, 1, full_bits, store, left[2])
        Left(here) ==
            IF here[1] = "Err" THEN here
            ELSE Right(collect_child_entries(node.left, 0, full_bits, store, here[2]))
        Here(value) ==
            IF value[1] = "Err" THEN value
            ELSE <<"Ok", [value[3] EXCEPT
                            !.entries = map_insert(@, path_encode(full_bits), value[2])]>>
    IN IF value_has_value(node.value)
       THEN Left(Here(resolve_node_value(node.value, store, noted)))
       ELSE Left(<<"Ok", ctx>>)

\* from_persisted_root that looks every root up in the store, the empty-trie hash
\* included.
from_persisted_root_always_loads(root, store) ==
    LET Walked(walked) ==
            IF walked[1] = "Err" THEN walked
            ELSE <<"Ok",
                   [entries |-> walked[2].entries,
                    materialized |-> None,
                    persisted_node_hashes |-> walked[2].persisted_node_hashes,
                    persisted_value_hashes |-> walked[2].persisted_value_hashes],
                   walked[2].calls>>
        Decoded(root_node) ==
            IF root_node[1] = "Err" THEN root_node
            ELSE Walked(collect_entries_from_node(
                            root_node[2], <<>>, store,
                            LoadCtx(EmptyMap, EmptyMap, {root}, {},
                                    <<StoreCall("load_raw_node", root, <<>>)>>)))
        Loaded(root_payload) ==
            IF root_payload[1] = "None"
            THEN <<"Err", "root hash not found in store adapter">>
            ELSE Decoded(decode_persisted_node(root_payload[2]))
    IN IF Len(root) # HASH_SIZE THEN <<"Err", "root hash must be 32 bytes">>
       ELSE Loaded(load_raw_node(store, root))

\* Unitrie::from_persisted_root: <<"Ok", trie, calls>>, calls being the store calls
\* made, or <<"Err", msg>>.
from_persisted_root(root, store) ==
    LET Walked(walked) ==
            IF walked[1] = "Err" THEN walked
            ELSE <<"Ok",
                   [entries |-> walked[2].entries,
                    materialized |-> None,
                    persisted_node_hashes |-> walked[2].persisted_node_hashes,
                    persisted_value_hashes |-> walked[2].persisted_value_hashes],
                   walked[2].calls>>
        Decoded(root_node) ==
            IF root_node[1] = "Err" THEN root_node
            ELSE Walked(collect_entries_from_node(
                            root_node[2], <<>>, store,
                            LoadCtx(EmptyMap, EmptyMap, {root}, {},
                                    <<StoreCall("load_raw_node", root, <<>>)>>)))
        Loaded(root_payload) ==
            IF root_payload[1] = "None"
            THEN <<"Err", "root hash not found in store adapter">>
            ELSE Decoded(decode_persisted_node(root_payload[2]))
    IN IF Len(root) # HASH_SIZE THEN <<"Err", "root hash must be 32 bytes">>
       ELSE IF root = empty_trie_hash THEN <<"Ok", Unitrie_new, <<>> >>
       ELSE Loaded(load_raw_node(store, root))

-----------------------------------------------------------------------------
(* core_trie.rs: the key collectors                                        *)

\* i32::MAX as usize, the byte size that asks for every key.
I32_MAX == 2147483647

\* Unitrie::keys: the keys in BTreeMap order.
Unitrie_keys(trie) == SortedKeys(DOMAIN trie.entries)

\* collect_keys without the sentinel.
collect_keys_without_sentinel(trie, byte_size) ==
    SelectSeq(Unitrie_keys(trie), LAMBDA key : Len(key) = byte_size)

collect_keys(trie, byte_size) ==
    SelectSeq(Unitrie_keys(trie), LAMBDA key : byte_size = I32_MAX \/ Len(key) = byte_size)

SECURE_KEY_SIZE == 10
DOMAIN_PREFIX == B(<<0>>)
STORAGE_PREFIX == B(<<0>>)

\* The first SECURE_KEY_SIZE bytes of the Keccak-256 digest of the account addresses
\* and storage keys the model uses.  These bytes become part of a key, which the
\* BTreeMap orders and the materializer splits into bits, so they are written out.
keccak256_head(input) ==
    CASE input = B(<<1>>) -> B(<<95, 231, 249, 119, 231, 29, 186, 46, 161, 166>>)
      [] input = B(<<2>>) -> B(<<242, 238, 21, 234, 99, 155, 115, 250, 61, 185>>)
      [] input = B(<<3>>) -> B(<<105, 195, 34, 227, 36, 138, 93, 252, 41, 215>>)
      [] input = B(<<1, 2, 3>>) -> B(<<241, 136, 94, 218, 84, 183, 160, 83, 49, 140>>)
      [] input = Repeat(17, 20) -> B(<<226, 192, 116, 4, 184, 193, 223, 76, 70, 34>>)

secure_key_prefix(key) == keccak256_head(key)

\* account_storage_prefix_key without the subdomain byte.
account_storage_prefix_key_no_subdomain(account_address) ==
    DOMAIN_PREFIX \o secure_key_prefix(account_address) \o account_address

account_storage_prefix_key(account_address) ==
    DOMAIN_PREFIX \o secure_key_prefix(account_address) \o account_address \o STORAGE_PREFIX

get_storage_keys(trie, account_address) ==
    LET Payloads(prefix, matching) ==
            [i \in 1..Len(matching) |->
                Slice(matching[i], Len(prefix) + SECURE_KEY_SIZE, Len(matching[i]))]
        Filtered(prefix) ==
            Payloads(prefix,
                     SelectSeq(Unitrie_keys(trie),
                               LAMBDA key : /\ starts_with(key, prefix)
                                            /\ Len(key) - Len(prefix) >= SECURE_KEY_SIZE))
    IN Filtered(account_storage_prefix_key(account_address))

\* What a &self method of Unitrie returns.
read_result(trie, op, arg) ==
    CASE op = "get" -> get(trie, arg)
      [] op = "get_ref" -> get(trie, arg)
      [] op = "get_value_length" -> get_value_length(trie, arg)
      [] op = "get_value_hash" -> get_value_hash(trie, arg)
      [] op = "collect_keys" -> collect_keys(trie, arg)
      [] op = "keys" -> Unitrie_keys(trie)
      [] op = "get_storage_keys" -> get_storage_keys(trie, arg)

\* A read that materializes the core on its way.
Unitrie_read_materializing(trie, op, arg) == <<read_result(trie, op, arg), materialize(trie)>>

\* A call of a &self method of Unitrie: <<what it returns, the core after it>>.
Unitrie_read(trie, op, arg) == <<read_result(trie, op, arg), trie>>

-----------------------------------------------------------------------------
(* storage_keys_packed.rs                                                  *)

RECURSIVE packed_values(_)
packed_values(values) ==
    IF values = <<>> THEN <<>>
    ELSE varint_encode(Len(Head(values))) \o Head(values) \o packed_values(Tail(values))

storage_keys_packed_encode(values) == varint_encode(Len(values)) \o packed_values(values)

-----------------------------------------------------------------------------
(* next/: the engine wrapped around Unitrie                                *)

\* A u64 is held as four 16-bit limbs, least significant first: its range lies
\* outside the integers TLC computes with.
LimbModulus == 65536

\* The u64 of a number below LimbModulus * LimbModulus / 2.
U64(n) == <<n % LimbModulus, n \div LimbModulus, 0, 0>>

U64_MAX == <<LimbModulus - 1, LimbModulus - 1, LimbModulus - 1, LimbModulus - 1>>

RECURSIVE add_with_carry(_, _, _)
add_with_carry(limbs, i, carry) ==
    IF i > Len(limbs) THEN limbs
    ELSE add_with_carry([limbs EXCEPT ![i] = (@ + carry) % LimbModulus], i + 1,
                        (limbs[i] + carry) \div LimbModulus)

\* u64::wrapping_add of a small right-hand side.
wrapping_add(value, rhs) == add_with_carry(value, 1, rhs)

\* next that stays at the largest value.
MutationGeneration_next_saturating(generation) ==
    IF generation = U64_MAX THEN generation ELSE wrapping_add(generation, 1)

\* MutationGeneration::next: wrapping_add(1); the value stored is the value returned.
MutationGeneration_next(generation) == wrapping_add(generation, 1)

DEFAULT_CAPACITY == 256

StorageIterationCache_new(capacity) ==
    [capacity |-> capacity, order |-> <<>>, entries |-> EmptyMap]

NodeArena_default == [next_id |-> 0, key_to_node |-> EmptyMap, dirty_nodes |-> {}]

mark_dirty_key(arena, key) ==
    IF key \in DOMAIN arena.key_to_node
    THEN [arena EXCEPT !.dirty_nodes = @ \cup {arena.key_to_node[key]}]
    ELSE [next_id |-> arena.next_id + 1,
          key_to_node |-> (key :> arena.next_id) @@ arena.key_to_node,
          dirty_nodes |-> arena.dirty_nodes \cup {arena.next_id}]

dirty_count(arena) == Cardinality(arena.dirty_nodes)

clear_dirty(arena) == [arena EXCEPT !.dirty_nodes = {}]

NextUnitrie_default ==
    [inner |-> Unitrie_new,
     node_arena |-> NodeArena_default,
     hash_state |-> None,
     persistence |-> [last_saved_root |-> None],
     storage_iteration_cache |-> StorageIterationCache_new(DEFAULT_CAPACITY),
     mutation_generation |-> U64(0),
     last_save_stats |-> SaveStats_default]

\* put that leaves the cached root hash in place.
Next_put_keeps_hash_state(trie, key, value) ==
    [trie EXCEPT !.mutation_generation = MutationGeneration_next(@),
                 !.node_arena = mark_dirty_key(@, key),
                 !.inner = put(@, key, value)]

Next_put(trie, key, value) ==
    [trie EXCEPT !.mutation_generation = MutationGeneration_next(@),
                 !.node_arena = mark_dirty_key(@, key),
                 !.hash_state = None,
                 !.inner = put(@, key, value)]

\* delete that leaves the cached root hash in place.
Next_delete_keeps_hash_state(trie, key) ==
    [trie EXCEPT !.mutation_generation = MutationGeneration_next(@),
                 !.node_arena = mark_dirty_key(@, key),
                 !.inner = delete(@, key)]

Next_delete(trie, key) ==
    [trie EXCEPT !.mutation_generation = MutationGeneration_next(@),
                 !.node_arena = mark_dirty_key(@, key),
                 !.hash_state = None,
                 !.inner = delete(@, key)]

Next_delete_recursive(trie, prefix) ==
    [trie EXCEPT !.mutation_generation = MutationGeneration_next(@),
                 !.node_arena = mark_dirty_key(@, prefix),
                 !.hash_state = None,
                 !.inner = delete_recursive(@, prefix)]

\* NextUnitrie::root_hash: <<the hash returned, the trie afterwards>>.
Next_root_hash(trie) ==
    LET Hashed(root) ==
            <<root[1], [trie EXCEPT !.inner = root[2], !.hash_state = Some(root[1])]>>
    IN IF trie.hash_state[1] = "Some" THEN <<trie.hash_state[2], trie>>
       ELSE Hashed(root_hash(trie.inner))

IncrementalPersistence_save(persistence, trie, store, dirty_nodes) ==
    LET Rooted(saved, root) ==
            [persistence |-> [last_saved_root |-> Some(root[1])],
             trie |-> root[2],
             store |-> saved.store,
             stats |-> saved.stats,
             calls |-> saved.calls]
        Saved(saved) == Rooted(saved, root_hash(saved.trie))
        Current(current_root) ==
            IF dirty_nodes = 0 /\ persistence.last_saved_root = Some(current_root[1])
            THEN [persistence |-> persistence, trie |-> current_root[2], store |-> store,
                  stats |-> SaveStats_default, calls |-> <<>>]
            ELSE Saved(save_to_store_with_stats(current_root[2], store))
    IN Current(root_hash(trie))

Next_save_to_store(trie, store) ==
    LET Rooted(saved, root) ==
            [trie |-> [trie EXCEPT !.last_save_stats = saved.stats,
                                   !.persistence = saved.persistence,
                                   !.inner = root[2],
                                   !.node_arena = clear_dirty(@),
                                   !.hash_state = Some(root[1])],
             store |-> saved.store,
             calls |-> saved.calls]
        Saved(saved) == Rooted(saved, root_hash(saved.trie))
    IN Saved(IncrementalPersistence_save(trie.persistence, trie.inner, store,
                                         dirty_count(trie.node_arena)))

Next_from_persisted_root(root, store) ==
    LET Hashed(inner, hashed) ==
            <<"Ok",
              [NextUnitrie_default EXCEPT !.inner = hashed[2],
                                          !.hash_state = Some(hashed[1])],
              inner[3]>>
        Inner(inner) ==
            IF inner[1] = "Err" THEN inner ELSE Hashed(inner, root_hash(inner[2]))
    IN Inner(from_persisted_root(root, store))

Core_Next_save_to_store_with_stats(trie, store) ==
    LET Saved(saved) ==
            [trie |-> saved.trie, store |-> saved.store,
             stats |-> saved.trie.last_save_stats, calls |-> saved.calls]
    IN Saved(Next_save_to_store(trie, store))


(* next/storage_iteration_cache.rs and the readers of next/core_trie.rs    *)

CacheEntry(generation, cached_keys, packed) ==
    [generation |-> generation, keys |-> cached_keys, packed |-> packed]

\* get_keys that answers for any generation.
get_keys_any_generation(cache, account_address, generation) ==
    IF account_address \in DOMAIN cache.entries
    THEN Some(cache.entries[account_address].keys)
    ELSE None

\* Option<Arc<Vec<Vec<u8>>>>
get_keys(cache, account_address, generation) ==
    IF account_address \in DOMAIN cache.entries
       /\ cache.entries[account_address].generation = generation
    THEN Some(cache.entries[account_address].keys)
    ELSE None

\* Option<Arc<Vec<u8>>>
get_packed(cache, account_address, generation) ==
    IF account_address \in DOMAIN cache.entries
       /\ cache.entries[account_address].generation = generation
    THEN Some(cache.entries[account_address].packed)
    ELSE None

\* touch that leaves an account already in the queue where it is.
touch_keeps_position(cache, account_address) ==
    IF \E i \in 1..Len(cache.order) : cache.order[i] = account_address THEN cache
    ELSE [cache EXCEPT !.order = Append(@, account_address)]

touch(cache, account_address) ==
    [cache EXCEPT !.order =
        Append(SelectSeq(@, LAMBDA candidate : candidate # account_address),
               account_address)]

\* The eviction loop that evicts nothing.
evict_nothing(cache) == cache

\* The eviction loop of insert.
RECURSIVE evict(_)
evict(cache) ==
    IF Cardinality(DOMAIN cache.entries) > cache.capacity /\ cache.order # <<>>
    THEN evict([cache EXCEPT !.order = Tail(@),
                             !.entries = map_remove(@, Head(cache.order))])
    ELSE cache

\* StorageIterationCache::insert: <<the cache afterwards, keys, packed>>.
insert(cache, account_address, generation, cached_keys, packed) ==
    LET Evicted(evicted) ==
            <<evicted,
              expect(map_get(evicted.entries, account_address)).keys,
              expect(map_get(evicted.entries, account_address)).packed>>
        Touched(touched_cache) ==
            Evicted(evict([touched_cache EXCEPT
                              !.entries = map_insert(@, account_address,
                                                     CacheEntry(generation, cached_keys,
                                                                packed))]))
    IN IF cache.capacity = 0 THEN <<cache, cached_keys, packed>>
       ELSE Touched(touch(cache, account_address))

\* storage_keys_bundle_for_account that looks the account up under any generation.
storage_keys_bundle_any_generation(trie, account_address) ==
    IF account_address \in DOMAIN trie.storage_iteration_cache.entries
    THEN <<trie.storage_iteration_cache.entries[account_address].keys,
           trie.storage_iteration_cache.entries[account_address].packed, trie>>
    ELSE LET Inserted(inserted) ==
                 <<inserted[2], inserted[3],
                   [trie EXCEPT !.storage_iteration_cache = inserted[1]]>>
             Computed(computed) ==
                 Inserted(insert(trie.storage_iteration_cache, account_address,
                                 trie.mutation_generation, computed,
                                 storage_keys_packed_encode(computed)))
         IN Computed(get_storage_keys(trie.inner, account_address))

\* NextUnitrie::storage_keys_bundle_for_account: <<keys, packed, the trie afterwards>>.
storage_keys_bundle_for_account(trie, account_address) ==
    LET Inserted(inserted) ==
            <<inserted[2], inserted[3],
              [trie EXCEPT !.storage_iteration_cache = inserted[1]]>>
        Computed(computed) ==
            Inserted(insert(trie.storage_iteration_cache, account_address,
                            trie.mutation_generation, computed,
                            storage_keys_packed_encode(computed)))
        Cached(cached_keys, cached_packed) ==
            IF cached_keys[1] = "Some" /\ cached_packed[1] = "Some"
            THEN <<cached_keys[2], cached_packed[2], trie>>
            ELSE Computed(get_storage_keys(trie.inner, account_address))
    IN Cached(get_keys(trie.storage_iteration_cache, account_address,
                       trie.mutation_generation),
              get_packed(trie.storage_iteration_cache, account_address,
                         trie.mutation_generation))

\* NextUnitrie::get_storage_keys: <<keys, the trie afterwards>>.
Next_get_storage_keys(trie, account_address) ==
    LET Bundle(bundle) == <<bundle[1], bundle[3]>>
    IN Bundle(storage_keys_bundle_for_account(trie, account_address))

\* next/iter.rs
collect_exact_size_keys(all_keys, byte_size) ==
    SelectSeq(all_keys, LAMBDA key : byte_size = I32_MAX \/ Len(key) = byte_size)

Next_collect_keys(trie, byte_size) ==
    collect_exact_size_keys(Unitrie_keys(trie.inner), byte_size)

Next_get(trie, key) == get(trie.inner, key)

Next_get_value_length(trie, key) == get_value_length(trie.inner, key)

Next_get_value_hash(trie, key) == get_value_hash(trie.inner, key)

-----------------------------------------------------------------------------
(* The state machine: one UnitrieCore of each implementation, driven through the  *)
(* methods of lib.rs, and the stores handed to save and from_persisted_root.     *)

\* Orders of a set of keys: every sequence that lists each key once.
Orders(keys) ==
    {order \in [1..Cardinality(keys) -> keys] : \A k \in keys : \E i \in DOMAIN order : order[i] = k}

RECURSIVE PutInOrder(_, _, _)
\* A core put every key of order, in that order, with the value entries gives it.
PutInOrder(trie, order, entries) ==
    IF order = <<>> THEN trie
    ELSE PutInOrder(put(trie, order[1], entries[order[1]]),
                    SubSeq(order, 2, Len(order)), entries)

\* Bounds of the model.
MaxSteps == 4
MaxNextSteps == 3
NumStores == 2

StoreIds == 1..NumStores

KeyLen == 9

\* A key long enough that its leaf, when it carries a long value, is too large to
\* embed; its extension by an 0xff byte; and a short key under another first bit.
LongKey == Repeat(0, KeyLen)

Keys == {LongKey, LongKey \o B(<<255>>), B(<<255>>)}

ShortValue == B(<<1>>)
LongValue == Repeat(66, LONG_VALUE_THRESHOLD + 1)

\* Values handed to put: the empty value, a short one and a long one.
PutValues == {<<>>, ShortValue, LongValue}

Prefixes == {<<>>, B(<<0>>), LongKey, B(<<255>>)}

\* The store a call names: none, or one of StoreIds.
NoStore == {}

\* Entries held by the two cores together; a call changes one core only.
EntryCount == key_count(legacy) + key_count(next.inner)

\* The most recent call: what it was, what it returned, the store calls it made,
\* how many entries it removed (negative: added), and which call came before it.
Call(op, key, value, store, result, calls) ==
    [op |-> op, key |-> key, value |-> value, store |-> store,
     result |-> result, calls |-> calls,
     removed |-> EntryCount - EntryCount',
     prev_op |-> last.op, prev_store |-> last.store]

Init ==
    /\ legacy = Unitrie_new
    /\ next = NextUnitrie_default
    /\ stores = [s \in StoreIds |-> InMemoryStore_default]
    /\ last = [op |-> "new", key |-> <<>>, value |-> <<>>, store |-> NoStore,
               result |-> None, calls |-> <<>>, removed |-> 0,
               prev_op |-> "none", prev_store |-> NoStore]
    /\ touched = [legacy |-> {}, next |-> {}]
    /\ steps = 0

Step == steps < MaxSteps /\ steps' = steps + 1

NextStep == steps < MaxNextSteps /\ steps' = steps + 1

(* UnitrieCore with UnitrieImplementation::LegacyV1 *)

LegacyPut(key, value) ==
    /\ Step
    /\ legacy' = put(legacy, key, value)
    /\ UNCHANGED <<next, stores, touched>>
    /\ last' = Call("put", key, value, NoStore, None, <<>>)

LegacyDelete(key) ==
    /\ Step
    /\ legacy' = delete(legacy, key)
    /\ UNCHANGED <<next, stores, touched>>
    /\ last' = Call("delete", key, <<>>, NoStore, None, <<>>)

LegacyDeleteRecursive(prefix) ==
    /\ Step
    /\ legacy' = delete_recursive(legacy, prefix)
    /\ UNCHANGED <<next, stores, touched>>
    /\ last' = Call("delete_recursive", prefix, <<>>, NoStore, None, <<>>)

LegacyRootHash ==
    /\ Step
    /\ LET Hashed(hashed) ==
               /\ legacy' = hashed[2]
               /\ UNCHANGED <<next, stores, touched>>
               /\ last' = Call("root_hash", <<>>, <<>>, NoStore, hashed[1], <<>>)
       IN Hashed(root_hash(legacy))



LegacySave(s) ==
    /\ Step
    /\ LET Saved(saved) ==
               /\ legacy' = saved.trie
               /\ stores' = [stores EXCEPT ![s] = saved.store]
               /\ touched' = [touched EXCEPT !.legacy = @ \cup {s}]
               /\ UNCHANGED next
               /\ last' = Call("save", <<>>, <<>>, {s}, saved.stats, saved.calls)
       IN Saved(save_to_store_with_stats(legacy, stores[s]))


LegacyLoad(root, s) ==
    /\ Step
    /\ LET Loaded(loaded) ==
               /\ legacy' = IF loaded[1] = "Ok" THEN loaded[2] ELSE legacy
               /\ touched' = IF loaded[1] = "Ok" THEN [touched EXCEPT !.legacy = {s}]
                             ELSE touched
               /\ UNCHANGED <<next, stores>>
               /\ last' = Call("from_persisted_root", root, <<>>, {s},
                               IF loaded[1] = "Ok" THEN <<"Ok">> ELSE loaded,
                               IF loaded[1] = "Ok" THEN loaded[3] ELSE <<>>)
       IN Loaded(from_persisted_root(root, stores[s]))


LegacyRoots == {root_hash(legacy)[1]}

Next ==
    \/ \E key \in Keys, value \in PutValues : LegacyPut(key, value)
    \/ \E key \in Keys : LegacyDelete(key)
    \/ \E prefix \in Prefixes : LegacyDeleteRecursive(prefix)
    \/ LegacyRootHash
    \/ \E s \in StoreIds : LegacySave(s)
    \/ \E root \in LegacyRoots, s \in StoreIds : LegacyLoad(root, s)

Spec == Init /\ [][Next]_vars

(* UnitrieCore with UnitrieImplementation::Next *)

NextPut(key, value) ==
    /\ NextStep
    /\ next' = Next_put(next, key, value)
    /\ UNCHANGED <<legacy, stores, touched>>
    /\ last' = Call("put", key, value, NoStore, None, <<>>)

NextDelete(key) ==
    /\ NextStep
    /\ next' = Next_delete(next, key)
    /\ UNCHANGED <<legacy, stores, touched>>
    /\ last' = Call("delete", key, <<>>, NoStore, None, <<>>)

NextDeleteRecursive(prefix) ==
    /\ NextStep
    /\ next' = Next_delete_recursive(next, prefix)
    /\ UNCHANGED <<legacy, stores, touched>>
    /\ last' = Call("delete_recursive", prefix, <<>>, NoStore, None, <<>>)

NextRootHash ==
    /\ NextStep
    /\ LET Hashed(hashed) ==
               /\ next' = hashed[2]
               /\ UNCHANGED <<legacy, stores, touched>>
               /\ last' = Call("root_hash", <<>>, <<>>, NoStore, hashed[1], <<>>)
       IN Hashed(Next_root_hash(next))



NextSave(s) ==
    /\ NextStep
    /\ LET Saved(saved) ==
               /\ next' = saved.trie
               /\ stores' = [stores EXCEPT ![s] = saved.store]
               /\ touched' = [touched EXCEPT !.next = @ \cup {s}]
               /\ UNCHANGED legacy
               /\ last' = Call("save", <<>>, <<>>, {s}, saved.stats, saved.calls)
       IN Saved(Core_Next_save_to_store_with_stats(next, stores[s]))



NextLoad(root, s) ==
    /\ NextStep
    /\ LET Loaded(loaded) ==
               /\ next' = IF loaded[1] = "Ok" THEN loaded[2] ELSE next
               /\ touched' = IF loaded[1] = "Ok" THEN [touched EXCEPT !.next = {s}]
                             ELSE touched
               /\ UNCHANGED <<legacy, stores>>
               /\ last' = Call("from_persisted_root", root, <<>>, {s},
                               IF loaded[1] = "Ok" THEN <<"Ok">> ELSE loaded,
                               IF loaded[1] = "Ok" THEN loaded[3] ELSE <<>>)
       IN Loaded(Next_from_persisted_root(root, stores[s]))



NextRoots == {Next_root_hash(next)[1]}

NextNext ==
    \/ \E key \in Keys, value \in PutValues : NextPut(key, value)
    \/ \E key \in Keys : NextDelete(key)
    \/ \E prefix \in Prefixes : NextDeleteRecursive(prefix)
    \/ NextRootHash
    \/ \E s \in StoreIds : NextSave(s)
    \/ \E root \in NextRoots, s \in StoreIds : NextLoad(root, s)

SpecNext == Init /\ [][NextNext]_vars

(* Unitrie::delete_recursive over the keys and prefixes of the test            *)
(* delete_recursive_range_matches_naive_behavior                               *)

MaxRangeSteps == 2

RangeKeys ==
    {<<>>, B(<<0>>), B(<<0, 1>>), B(<<0, 255>>), B(<<1>>), B(<<1, 0>>), B(<<1, 128>>),
     B(<<16, 32, 48>>), B(<<255>>), B(<<255, 0>>), B(<<255, 255>>)}

\* The prefixes of the test, and two that end in 0xff without being all 0xff.
RangePrefixes ==
    {<<>>, B(<<0>>), B(<<0, 1>>), B(<<1>>), B(<<1, 128>>), B(<<2>>), B(<<255>>),
     B(<<255, 255>>), B(<<255, 255, 255>>), B(<<0, 255>>), B(<<1, 255>>)}

\* vec![key.len() as u8]
RangeValue(key) == B(<<Len(key)>>)

\* A core that was put some of the keys, each with its value.
RangeInit ==
    /\ \E present \in SUBSET RangeKeys :
           legacy = PutInOrder(Unitrie_new, SortedKeys(present),
                               [k \in present |-> RangeValue(k)])
    /\ next = NextUnitrie_default
    /\ stores = [s \in StoreIds |-> InMemoryStore_default]
    /\ last = [op |-> "new", key |-> <<>>, value |-> <<>>, store |-> NoStore,
               result |-> None, calls |-> <<>>, removed |-> 0,
               prev_op |-> "none", prev_store |-> NoStore]
    /\ touched = [legacy |-> {}, next |-> {}]
    /\ steps = 0

RangeDeleteRecursive(prefix) ==
    /\ steps < MaxRangeSteps
    /\ steps' = steps + 1
    /\ legacy' = delete_recursive(legacy, prefix)
    /\ UNCHANGED <<next, stores, touched>>
    /\ last' = Call("delete_recursive", prefix, <<>>, NoStore, None, <<>>)

RangeNext == \E prefix \in RangePrefixes : RangeDeleteRecursive(prefix)

SpecRange == RangeInit /\ [][RangeNext]_vars

-----------------------------------------------------------------------------
(* Properties of the LegacyV1 core, checked under Spec.                    *)

\* C1: after any puts, deletes and recursive deletes, save_to_store on a store and
\* then from_persisted_root with the core's root hash on that same store succeeds,
\* and the core it returns has the entries and the root hash the saved core had.
\* The core saved is one whose saves and rehydration used no other store.
SaveThenReload ==
    (/\ last.op = "save"
     /\ last'.op = "from_persisted_root"
     /\ last'.store = last.store
     /\ touched.legacy = last.store)
    => /\ last'.result = <<"Ok">>
       /\ legacy'.entries = legacy.entries
       /\ root_hash(legacy')[1] = root_hash(legacy)[1]
       /\ last'.key = root_hash(legacy)[1]

C1_SaveReloadRoundTrip == [][SaveThenReload]_vars

\* A reload right after a save to the same store, of a core holding two keys, one of
\* them with a long value, whose tree has a child stored under its hash.
C1_Witness ==
    /\ last.op = "from_persisted_root"
    /\ last.prev_op = "save"
    /\ last.prev_store = last.store
    /\ last.result = <<"Ok">>
    /\ Cardinality(DOMAIN legacy.entries) >= 2
    /\ legacy.persisted_value_hashes # {}
    /\ Cardinality(legacy.persisted_node_hashes) >= 2

\* C2: save_to_store writes to the store it is given every node and long value the
\* tree needs, whether or not the core was saved to another store before: the store
\* just saved to rehydrates the core's entries from the core's root hash.
C2_SaveCompleteOnAnyStore ==
    last.op = "save" =>
        \A s \in last.store :
            LET loaded == from_persisted_root(root_hash(legacy)[1], stores[s])
            IN loaded[1] = "Ok" /\ loaded[2].entries = legacy.entries

\* C3: the root hash is a function of the entries alone: a fresh core that is put the
\* same pairs, in any order, reports the root hash this core reports, whatever calls
\* (overwrites, deletes, saves, rehydration) brought this core to its entries.
C3_RootHashOfEntriesOnly ==
    \A order \in Orders(DOMAIN legacy.entries) :
        root_hash(PutInOrder(Unitrie_new, order, legacy.entries))[1] = root_hash(legacy)[1]

\* A core with two entries reached through a delete, after an earlier save filled its
\* materialized record.
C3_Witness ==
    /\ last.op \in {"delete", "delete_recursive"}
    /\ Cardinality(DOMAIN legacy.entries) = 2
    /\ legacy.persisted_node_hashes # {}

\* C4: a second save_to_store in a row on the same core and store makes exactly one
\* save_raw_node call, for the root under the hash and bytes of the first save, and
\* no save_raw_value call; the store holds afterwards what it held before.
SecondSave ==
    (/\ last.op = "save"
     /\ last'.op = "save"
     /\ last'.store = last.store)
    => /\ Len(last'.calls) = 1
       /\ last'.calls[1] = last.calls[Len(last.calls)]
       /\ last'.calls[1][1] = "save_raw_node"
       /\ last'.calls[1][2] = root_hash(legacy)[1]
       /\ last'.result.nodes_written = 1
       /\ last'.result.values_written = 0
       /\ stores' = stores

C4_SecondSaveWritesRootOnly == [][SecondSave]_vars

\* A second save in a row to the same store of a tree with a long value and a child
\* stored under its hash.
C4_Witness ==
    /\ last.op = "save"
    /\ last.prev_op = "save"
    /\ last.prev_store = last.store
    /\ last.result.nodes_visited >= 2
    /\ legacy.persisted_value_hashes # {}
    /\ Cardinality(legacy.persisted_node_hashes) >= 2

\* The hashes in persisted_node_hashes of trees that held at least one entry.
SavedTreeHashes == legacy.persisted_node_hashes \ {empty_trie_hash}

\* C6: a core whose entries are empty, never written or emptied again by deletes,
\* reports the Keccak-256 of the byte 0x80 as its root hash.
C6_EmptyRootHash ==
    DOMAIN legacy.entries = {} => root_hash(legacy)[1] = keccak256(B(<<128>>))

\* A core emptied by a removal after a tree with entries was saved.
C6_Witness ==
    /\ DOMAIN legacy.entries = {}
    /\ last.op \in {"delete", "delete_recursive", "put"}
    /\ SavedTreeHashes # {}

\* C7: after put(k, v) with v not empty, get(k) is v and get_value_length(k) is the
\* length of v, whatever k held before; every other key reads as it read before.
PutThenGet ==
    (last'.op = "put" /\ last'.value # <<>>)
    => /\ get(legacy', last'.key) = Some(last'.value)
       /\ get_value_length(legacy', last'.key) = Some(Len(last'.value))
       /\ \A k \in (Keys \cup DOMAIN legacy.entries \cup DOMAIN legacy'.entries) \ {last'.key} :
              get(legacy', k) = get(legacy, k)

C7_PutGetRoundTrip == [][PutThenGet]_vars

\* The third call puts a long value under the one key of the core; the second call
\* saved a tree with an entry and no long value, so the put replaces a short value.
C7_Witness ==
    /\ steps = 3
    /\ last.op = "put"
    /\ last.value = LongValue
    /\ last.prev_op = "save"
    /\ Cardinality(DOMAIN legacy.entries) = 1
    /\ SavedTreeHashes # {}
    /\ legacy.persisted_value_hashes = {}

\* C8: put(k, empty value) leaves the core as delete(k) leaves it: k reads as absent,
\* and the entries, the root hash and the rest of the core are those after delete(k).
PutEmptyValue ==
    (last'.op = "put" /\ last'.value = <<>>)
    => /\ get(legacy', last'.key) = None
       /\ legacy'.entries = delete(legacy, last'.key).entries
       /\ root_hash(legacy')[1] = root_hash(delete(legacy, last'.key))[1]
       /\ legacy' = delete(legacy, last'.key)

C8_PutEmptyIsDelete == [][PutEmptyValue]_vars

\* The third call puts the empty value and leaves the core empty; the second call
\* saved a tree with an entry, so the put removed a key that was there.
C8_Witness ==
    /\ steps = 3
    /\ last.op = "put"
    /\ last.value = <<>>
    /\ last.removed = 1
    /\ last.prev_op = "save"
    /\ DOMAIN legacy.entries = {}
    /\ SavedTreeHashes # {}

\* C9: delete of a key that is not there changes neither the entries nor the root
\* hash, and a second delete of the same key leaves the core as the first left it.
DeleteAbsent ==
    (last'.op = "delete" /\ last'.key \notin DOMAIN legacy.entries)
    => /\ legacy'.entries = legacy.entries
       /\ root_hash(legacy')[1] = root_hash(legacy)[1]

DeleteTwice ==
    (last.op = "delete" /\ last'.op = "delete" /\ last'.key = last.key)
    => legacy' = legacy

C9_DeleteAbsentIsNoOp == [][DeleteAbsent /\ DeleteTwice]_vars

\* A delete that removed nothing from a core that holds entries and whose root hash
\* was asked for just before.
C9_Witness ==
    /\ last.op = "delete"
    /\ last.removed = 0
    /\ last.prev_op = "root_hash"
    /\ DOMAIN legacy.entries # {}

\* C10: delete_recursive(p) leaves exactly the entries whose keys do not start with
\* p, each with its value: for the empty prefix (nothing stays), for prefixes that
\* end in 0xff and for prefixes of 0xff bytes only, and no key outside the prefix is
\* lost, whether it sorts before the prefix or at or after its upper bound.
RecursiveDelete ==
    last'.op = "delete_recursive"
    => legacy'.entries =
           Restrict(legacy.entries,
                    {k \in DOMAIN legacy.entries : ~starts_with(k, last'.key)})

C10_DeleteRecursiveIsPrefixFilter == [][RecursiveDelete]_vars

\* delete_recursive of a prefix that ends in 0xff removed a key and left keys
\* that sort before the prefix and keys that sort after its upper bound.
C10_Witness ==
    /\ last.op = "delete_recursive"
    /\ last.key = B(<<0, 255>>)
    /\ last.removed = 1
    /\ {B(<<0>>), B(<<0, 1>>), B(<<1>>), B(<<1, 0>>), B(<<255>>)} \subseteq DOMAIN legacy.entries

-----------------------------------------------------------------------------
(* Properties of the Next core, checked under SpecNext.                    *)

\* C5: a Next core saved again with no mutation in between re-writes its root node,
\* as a LegacyV1 core does: the save makes one save_raw_node call, for the root hash,
\* and reports one node written.
C5_NextRepeatedSaveWritesRoot ==
    (last.op = "save" /\ last.prev_op = "save")
    => /\ last.result.nodes_written = 1
       /\ Len(last.calls) = 1
       /\ last.calls[1][1] = "save_raw_node"
       /\ last.calls[1][2] = Next_root_hash(next)[1]

-----------------------------------------------------------------------------
(* A LegacyV1 core and a Next core driven by the same calls, as in          *)
(* tests/parity_legacy_next.rs                                             *)

MaxParitySteps == 3

\* tests/parity_legacy_next.rs storage_full_key
storage_full_key(account_address, storage_key) ==
    B(<<0>>) \o keccak256_head(account_address) \o account_address \o B(<<0>>)
        \o keccak256_head(storage_key) \o storage_key

ParityAccounts == {B(<<1>>), B(<<2>>)}

\* A key outside every account; under account 0x01 a storage key, a key whose
\* remainder is exactly the secure prefix and one whose remainder is a byte short of
\* it; and a storage key of account 0x02.
ParityKeys ==
    {B(<<97, 97>>),
     storage_full_key(B(<<1>>), B(<<1, 2, 3>>)),
     account_storage_prefix_key(B(<<1>>)) \o Repeat(7, SECURE_KEY_SIZE),
     account_storage_prefix_key(B(<<1>>)) \o Repeat(7, SECURE_KEY_SIZE - 1),
     storage_full_key(B(<<2>>), B(<<1, 2, 3>>))}

ParityPrefixes == {B(<<0>>), account_storage_prefix_key(B(<<1>>))}

\* Byte sizes asked of collect_keys: the key lengths of the model, a length no key
\* has, and the sentinel.
ByteSizes == {Len(key) : key \in ParityKeys} \cup {0, I32_MAX}

ParityStep == steps < MaxParitySteps /\ steps' = steps + 1

ParityPut(key, value) ==
    /\ ParityStep
    /\ legacy' = put(legacy, key, value)
    /\ next' = Next_put(next, key, value)
    /\ UNCHANGED <<stores, touched>>
    /\ last' = Call("put", key, value, NoStore, None, <<>>)

ParityDelete(key) ==
    /\ ParityStep
    /\ legacy' = delete(legacy, key)
    /\ next' = Next_delete(next, key)
    /\ UNCHANGED <<stores, touched>>
    /\ last' = Call("delete", key, <<>>, NoStore, None, <<>>)

ParityDeleteRecursive(prefix) ==
    /\ ParityStep
    /\ legacy' = delete_recursive(legacy, prefix)
    /\ next' = Next_delete_recursive(next, prefix)
    /\ UNCHANGED <<stores, touched>>
    /\ last' = Call("delete_recursive", prefix, <<>>, NoStore, None, <<>>)

\* current_root_hash on both cores; result: <<LegacyV1's, Next's>>.
ParityRootHash ==
    /\ ParityStep
    /\ LET Hashed(legacy_hashed, next_hashed) ==
               /\ legacy' = legacy_hashed[2]
               /\ next' = next_hashed[2]
               /\ UNCHANGED <<stores, touched>>
               /\ last' = Call("current_root_hash", <<>>, <<>>, NoStore,
                               <<legacy_hashed[1], next_hashed[1]>>, <<>>)
       IN Hashed(root_hash(legacy), Next_root_hash(next))

\* get_storage_keys on both cores; result: <<LegacyV1's, Next's>>.
ParityGetStorageKeys(account_address) ==
    /\ ParityStep
    /\ LET Got(next_got) ==
               /\ next' = next_got[2]
               /\ UNCHANGED <<legacy, stores, touched>>
               /\ last' = Call("get_storage_keys", account_address, <<>>, NoStore,
                               <<get_storage_keys(legacy, account_address), next_got[1]>>,
                               <<>>)
       IN Got(Next_get_storage_keys(next, account_address))

\* collect_keys on both cores; the byte size asked is the call's key, the result is
\* <<LegacyV1's, Next's>>.
ParityCollectKeys(byte_size) ==
    /\ ParityStep
    /\ UNCHANGED <<legacy, next, stores, touched>>
    /\ last' = Call("collect_keys", byte_size, <<>>, NoStore,
                    <<collect_keys(legacy, byte_size), Next_collect_keys(next, byte_size)>>,
                    <<>>)

ParityNext ==
    \/ \E key \in ParityKeys, value \in PutValues : ParityPut(key, value)
    \/ \E key \in ParityKeys : ParityDelete(key)
    \/ \E prefix \in ParityPrefixes : ParityDeleteRecursive(prefix)
    \/ ParityRootHash
    \/ \E account_address \in ParityAccounts : ParityGetStorageKeys(account_address)
    \/ \E byte_size \in ByteSizes : ParityCollectKeys(byte_size)

SpecParity == Init /\ [][ParityNext]_vars

\* C11: collect_keys(byte_size) returns, in ascending order and without duplicates,
\* exactly the keys of the entries map whose length is byte_size, or every key when
\* byte_size is 2147483647, and the Next core returns the same list.
C11_CollectKeysByLength ==
    last.op = "collect_keys" =>
        LET returned == last.result[1] IN
        /\ \A i, j \in 1..Len(returned) : i < j => LexLess(returned[i], returned[j])
        /\ {returned[i] : i \in 1..Len(returned)}
               = {key \in DOMAIN legacy.entries :
                      last.key = 2147483647 \/ Len(key) = last.key}
        /\ last.result[2] = returned

\* collect_keys was asked for one length and left out a key of another length.
C11_Witness ==
    /\ last.op = "collect_keys"
    /\ last.key # I32_MAX
    /\ Len(last.result[1]) = 1
    /\ key_count(legacy) = 2

\* The keys of account that get_storage_keys answers for, by the prefix rule.
OwnedStorageKeys(account) ==
    LET prefix == B(<<0>>) \o keccak256_head(account) \o account \o B(<<0>>)
    IN {key \in DOMAIN legacy.entries :
            starts_with(key, prefix) /\ Len(key) - Len(prefix) >= 10}

\* C12: get_storage_keys(A) returns, for exactly the keys that start with
\* 0x00 ++ Keccak-256(A)[0..10] ++ A ++ 0x00 and have at least 10 bytes after it,
\* what follows those 10 bytes, in key order; no other key contributes.
C12_StorageKeysByPrefixRule ==
    last.op = "get_storage_keys" =>
        LET owned == SortedKeys(OwnedStorageKeys(last.key))
        IN last.result[1] =
               [i \in 1..Len(owned) |->
                   SubSeq(owned[i], 1 + 10 + Len(last.key) + 1 + 10 + 1, Len(owned[i]))]

\* get_storage_keys answered with one tail while the account also held a key whose
\* remainder is a byte short of the secure prefix.
C12_Witness ==
    /\ last.op = "get_storage_keys"
    /\ last.key = B(<<1>>)
    /\ Len(last.result[1]) = 1
    /\ key_count(legacy) = 2
    /\ account_storage_prefix_key(B(<<1>>)) \o Repeat(7, SECURE_KEY_SIZE - 1)
           \in DOMAIN legacy.entries

\* C18: after every step of the same put/delete/delete_recursive calls, the LegacyV1
\* core and the Next core answer alike: get, get_value_length and get_value_hash on
\* every key, current_root_hash, get_storage_keys and collect_keys.
C18_LegacyNextParity ==
    /\ \A key \in ParityKeys :
           /\ get(legacy, key) = Next_get(next, key)
           /\ get_value_length(legacy, key) = Next_get_value_length(next, key)
           /\ get_value_hash(legacy, key) = Next_get_value_hash(next, key)
    /\ root_hash(legacy)[1] = Next_root_hash(next)[1]
    /\ \A account_address \in ParityAccounts :
           get_storage_keys(legacy, account_address)
               = Next_get_storage_keys(next, account_address)[1]
    /\ \A byte_size \in ByteSizes :
           collect_keys(legacy, byte_size) = Next_collect_keys(next, byte_size)

\* A put changed the entries after both cores had reported a root hash, with a
\* storage key present.
C18_Witness ==
    /\ last.op = "put"
    /\ last.prev_op = "current_root_hash"
    /\ last.removed # 0
    /\ key_count(legacy) = 2
    /\ get_storage_keys(legacy, B(<<1>>)) # <<>>

-----------------------------------------------------------------------------
(* A Next core whose storage iteration cache is full: get_storage_keys was  *)
(* called for DEFAULT_CAPACITY accounts before the first mutation           *)

MaxCacheSteps == 4

\* The account of the parity test; no call has named it yet.
NewAccount == Repeat(17, 20)

\* The accounts already asked for, oldest first: 0x01, 0x02, then the other
\* one-byte addresses.
AskedAccounts ==
    <<B(<<1>>), B(<<2>>)>> \o [i \in 1..(DEFAULT_CAPACITY - 2) |-> B(<<(i + 2) % 256>>)]

\* The core after get_storage_keys for each of accounts in turn, none of which owns a
\* key: every account is cached under the generation of the new core.
AskedEach(trie, accounts) ==
    [trie EXCEPT !.storage_iteration_cache =
        [capacity |-> @.capacity,
         order |-> accounts,
         entries |-> [account \in {accounts[i] : i \in 1..Len(accounts)} |->
                         CacheEntry(trie.mutation_generation, <<>>,
                                    storage_keys_packed_encode(<<>>))]]]

CacheAccounts == {B(<<1>>), B(<<2>>), NewAccount}

CacheKeys ==
    {storage_full_key(B(<<1>>), B(<<1, 2, 3>>)),
     storage_full_key(NewAccount, B(<<1, 2, 3>>))}

CacheInit ==
    /\ legacy = Unitrie_new
    /\ next = AskedEach(NextUnitrie_default, AskedAccounts)
    /\ stores = [s \in StoreIds |-> InMemoryStore_default]
    /\ last = [op |-> "new", key |-> <<>>, value |-> <<>>, store |-> NoStore,
               result |-> None, calls |-> <<>>, removed |-> 0,
               prev_op |-> "none", prev_store |-> NoStore]
    /\ touched = [legacy |-> {}, next |-> {}]
    /\ steps = 0

CacheStep == steps < MaxCacheSteps /\ steps' = steps + 1

CachePut(key, value) ==
    /\ CacheStep
    /\ next' = Next_put(next, key, value)
    /\ UNCHANGED <<legacy, stores, touched>>
    /\ last' = Call("put", key, value, NoStore, None, <<>>)

CacheDelete(key) ==
    /\ CacheStep
    /\ next' = Next_delete(next, key)
    /\ UNCHANGED <<legacy, stores, touched>>
    /\ last' = Call("delete", key, <<>>, NoStore, None, <<>>)

CacheDeleteRecursive(prefix) ==
    /\ CacheStep
    /\ next' = Next_delete_recursive(next, prefix)
    /\ UNCHANGED <<legacy, stores, touched>>
    /\ last' = Call("delete_recursive", prefix, <<>>, NoStore, None, <<>>)

CacheGetStorageKeys(account_address) ==
    /\ CacheStep
    /\ LET Got(got) ==
               /\ next' = got[2]
               /\ UNCHANGED <<legacy, stores, touched>>
               /\ last' = Call("get_storage_keys", account_address, <<>>, NoStore,
                               got[1], <<>>)
       IN Got(Next_get_storage_keys(next, account_address))

CacheNext ==
    \/ \E key \in CacheKeys, value \in {<<>>, ShortValue} : CachePut(key, value)
    \/ \E key \in CacheKeys : CacheDelete(key)
    \/ CacheDeleteRecursive(B(<<0>>))
    \/ \E account_address \in CacheAccounts : CacheGetStorageKeys(account_address)

SpecCache == CacheInit /\ [][CacheNext]_vars

\* C19: whatever puts, deletes and get_storage_keys calls came before, for accounts
\* in the cache, evicted from it or never in it, get_storage_keys(A) on the Next core
\* returns what the uncached computation over the current entries returns.
C19_StorageKeysCacheIsFresh ==
    last.op = "get_storage_keys" =>
        last.result = get_storage_keys(next.inner, last.key)

\* get_storage_keys answered for an account whose cached answer was older than the
\* last put, in a cache that had evicted accounts to make room.
C19_Witness ==
    /\ last.op = "get_storage_keys"
    /\ last.key = B(<<1>>)
    /\ last.prev_op = "put"
    /\ last.result # <<>>
    /\ NewAccount \in DOMAIN next.storage_iteration_cache.entries
    /\ B(<<2>>) \notin DOMAIN next.storage_iteration_cache.entries
    /\ Cardinality(DOMAIN next.storage_iteration_cache.entries) = DEFAULT_CAPACITY

-----------------------------------------------------------------------------
(* The save of an empty LegacyV1 core, under Spec                           *)

\* C17: every save of a trie without entries makes one save_raw_node call, which
\* stores the empty-node encoding (the flags byte 0x40) under Keccak-256(0x80), makes
\* no save_raw_value call, and returns nodes_visited = 1, nodes_written = 1,
\* values_written = 0.
C17_EmptySaveWritesOneNode ==
    (last.op = "save" /\ DOMAIN legacy.entries = {}) =>
        /\ last.calls = <<StoreCall("save_raw_node", keccak256(B(<<128>>)), B(<<64>>))>>
        /\ last.result = [nodes_visited |-> 1, nodes_written |-> 1, values_written |-> 0]
        /\ \A s \in last.store :
               load_raw_node(stores[s], keccak256(B(<<128>>))) = Some(B(<<64>>))

\* An empty trie was saved again to the store it had just been saved to.
C17_Witness ==
    /\ last.op = "save"
    /\ last.prev_op = "save"
    /\ last.prev_store = last.store
    /\ DOMAIN legacy.entries = {}

-----------------------------------------------------------------------------
(* Saves of LegacyV1 cores whose values and leaves lie on both sides of the  *)
(* long-value threshold and of the embedding limit                          *)

MaxSaveSteps == 2

\* A value of exactly LONG_VALUE_THRESHOLD bytes.
ThresholdValue == Repeat(66, LONG_VALUE_THRESHOLD)

\* Keys and the values each may hold (<<>>: the key is absent).  0x00 and 0x0000 make
\* a small node that has a child.  A leaf with a 32-byte value serializes to 44 bytes
\* under the 9-byte key and to 45 under the 10-byte key; a leaf with a long value to
\* 44 bytes under the 6-byte key and to 45 under the 7-byte key.
SaveKeyValues ==
    <<  <<B(<<0>>), {<<>>, ShortValue}>>,
        <<B(<<0, 0>>), {<<>>, ShortValue}>>,
        <<B(<<128>>) \o Repeat(0, 8), {<<>>, ThresholdValue, LongValue}>>,
        <<B(<<192>>) \o Repeat(0, 9), {<<>>, ThresholdValue, LongValue}>>,
        <<B(<<64>>) \o Repeat(0, 5), {<<>>, LongValue}>>,
        <<B(<<96>>) \o Repeat(0, 6), {<<>>, LongValue}>>  >>

\* Every choice of a value for each key.
SaveChoices ==
    {choice \in [1..Len(SaveKeyValues) -> UNION {SaveKeyValues[i][2] : i \in 1..Len(SaveKeyValues)}] :
        \A i \in 1..Len(SaveKeyValues) : choice[i] \in SaveKeyValues[i][2]}

RECURSIVE PutEach(_, _, _)
\* The core after put(key, value) for the keys i.. of SaveKeyValues.
PutEach(trie, choice, i) ==
    IF i > Len(SaveKeyValues) THEN trie
    ELSE PutEach(put(trie, SaveKeyValues[i][1], choice[i]), choice, i + 1)

SaveInit ==
    /\ \E choice \in SaveChoices : legacy = PutEach(Unitrie_new, choice, 1)
    /\ next = NextUnitrie_default
    /\ stores = [s \in StoreIds |-> InMemoryStore_default]
    /\ last = [op |-> "new", key |-> <<>>, value |-> <<>>, store |-> NoStore,
               result |-> None, calls |-> <<>>, removed |-> 0,
               prev_op |-> "none", prev_store |-> NoStore]
    /\ touched = [legacy |-> {}, next |-> {}]
    /\ steps = 0

SaveTo(s) ==
    /\ steps < MaxSaveSteps
    /\ steps' = steps + 1
    /\ LET Saved(saved) ==
               /\ legacy' = saved.trie
               /\ stores' = [stores EXCEPT ![s] = saved.store]
               /\ touched' = [touched EXCEPT !.legacy = @ \cup {s}]
               /\ UNCHANGED next
               /\ last' = Call("save", <<>>, <<>>, {s}, saved.stats, saved.calls)
       IN Saved(save_to_store_with_stats(legacy, stores[s]))

SaveNext == \E s \in StoreIds : SaveTo(s)

SpecSave == SaveInit /\ [][SaveNext]_vars

\* The node a blob decodes to.
BlobNode(blob) == expect(Rskip107_decode_node(blob))

\* The blob a digest was computed from.
Preimage(hash) == hash[1][2]

RECURSIVE TreeNodes(_)
\* A node and every node below it, through embedded children and through the blobs
\* that hashed children name.
TreeNodes(node) ==
    {node}
    \cup (IF node.left[1] = "Embedded" THEN TreeNodes(node.left[2])
          ELSE IF node.left[1] = "Hashed" THEN TreeNodes(BlobNode(Preimage(node.left[2])))
          ELSE {})
    \cup (IF node.right[1] = "Embedded" THEN TreeNodes(node.right[2])
          ELSE IF node.right[1] = "Hashed" THEN TreeNodes(BlobNode(Preimage(node.right[2])))
          ELSE {})

\* The calls of the last operation to one store method.
CallsTo(method) == {last.calls[i] : i \in {j \in 1..Len(last.calls) : last.calls[j][1] = method}}

\* The root blob a save wrote: the last save_raw_node call of the walk.
SavedRootBlob == last.calls[Len(last.calls)][3]

\* The nodes of the tree a save encoded.
SavedNodes == TreeNodes(BlobNode(SavedRootBlob))

\* The last n bytes of a blob.
Suffix(blob, n) == SubSeq(blob, Len(blob) - n + 1, Len(blob))

\* The values of the entries map.
StoredValues == {legacy.entries[key] : key \in DOMAIN legacy.entries}

\* C13: in what a save encodes, a value of at most 32 bytes is inline in its node and
\* is never written as a value blob; a value of 33 bytes or more is in its node as its
\* Keccak-256 hash and its length, and the save that first persists the trie writes
\* it to the store under that hash.
C13_LongValueBoundary ==
    (last.op = "save" /\ DOMAIN legacy.entries # {}) =>
        /\ \A call \in CallsTo("save_raw_value") :
               Len(call[3]) >= 33 /\ call[2] = keccak256(call[3])
        /\ {node.value : node \in SavedNodes} \ {ValueRef_Empty}
               = {IF Len(value) <= 32 THEN <<"Inline", value>>
                  ELSE <<"Hashed", keccak256(value), Some(Len(value))>> : value \in StoredValues}
        /\ \A call \in CallsTo("save_raw_node") :
               LET Ends(blob, value) ==
                       IF value[1] = "Inline"
                       THEN Len(value[2]) <= 32 /\ Suffix(blob, Len(value[2])) = value[2]
                       ELSE value[1] = "Hashed" =>
                                /\ value[3][2] >= 33
                                /\ Suffix(blob, 35) = value[2] \o B(<<0, 0, value[3][2]>>)
               IN Ends(call[3], BlobNode(call[3]).value)
        /\ steps = 1 =>
               \A value \in StoredValues :
                   Len(value) >= 33 =>
                       /\ <<"save_raw_value", keccak256(value), value>>
                              \in CallsTo("save_raw_value")
                       /\ \A s \in last.store :
                              load_raw_value(stores[s], keccak256(value)) = Some(value)

\* A save encoded a 32-byte value and a 33-byte value in one tree.
C13_Witness ==
    /\ last.op = "save"
    /\ steps = 1
    /\ ThresholdValue \in StoredValues
    /\ LongValue \in StoredValues
    /\ Cardinality(CallsTo("save_raw_value")) = 1

\* The serialized length of a node that has no children.
TerminalLength(node) ==
    Len(expect(encode_node(node, ChildEncoding_Empty, ChildEncoding_Empty, None)))

\* C14: in every node encoding that materialization or a save produces, a child is
\* embedded iff it has no children and serializes to at most 44 bytes, and is
\* otherwise named by its 32-byte hash.
C14_EmbeddingBoundary ==
    (last.op = "save" /\ DOMAIN legacy.entries # {}) =>
        /\ keccak256(SavedRootBlob) = root_hash(legacy)[1]
        /\ keccak256(SavedRootBlob)
               = expect(compute_node_metadata(expect(build_root_node(legacy.entries)))).hash
        /\ \A node \in SavedNodes : \A child \in {node.left, node.right} :
               /\ child[1] = "Embedded" =>
                      /\ child[2].left[1] = "Empty" /\ child[2].right[1] = "Empty"
                      /\ TerminalLength(child[2]) <= 44
               /\ child[1] = "Hashed" =>
                      /\ Len(child[2]) = 32
                      /\ \/ BlobNode(Preimage(child[2])).left[1] # "Empty"
                         \/ BlobNode(Preimage(child[2])).right[1] # "Empty"
                         \/ Len(Preimage(child[2])) > 44

\* A save encoded an embedded leaf of 44 bytes, a hashed leaf of 45 bytes and a hashed
\* node of fewer than 44 bytes that has a child.
C14_Witness ==
    /\ last.op = "save"
    /\ \E node \in SavedNodes : \E child \in {node.left, node.right} :
           child[1] = "Embedded" /\ TerminalLength(child[2]) = 44
    /\ \E node \in SavedNodes : \E child \in {node.left, node.right} :
           /\ child[1] = "Hashed"
           /\ Len(Preimage(child[2])) = 45
           /\ BlobNode(Preimage(child[2])).left[1] = "Empty"
           /\ BlobNode(Preimage(child[2])).right[1] = "Empty"
    /\ \E node \in SavedNodes : \E child \in {node.left, node.right} :
           /\ child[1] = "Hashed"
           /\ Len(Preimage(child[2])) < 44

-----------------------------------------------------------------------------
(* Rehydration from a store that something other than this core's save      *)
(* fills: entry by entry, with nodes in legacy form, with rewritten blobs   *)

MaxLoadSteps == 5

\* The store rehydration reads, and the store holding the whole graph.
LoadStore == NumStores - 1
SourceStore == NumStores

\* The depths whose nodes a graph has in legacy form: none, the middle one (a legacy
\* node under a current one and over a current one), the outer ones, all.
LegacyDepthSets == {{}, {1}, {0, 2}, {0, 1, 2}}

\* First bytes that are neither 2 nor have 01 as their top two bits: one for each
\* other value of the top two bits.
OtherFirstBytes == {0, 128, 192}

\* Keys that make a chain of three nodes, and the values each may hold.
LoadKeyValues ==
    <<  <<B(<<0>>), {ShortValue}>>,
        <<B(<<0, 0>>), {ShortValue, LongValue}>>,
        <<B(<<0, 0, 0>>), {<<>>, ShortValue, LongValue}>>  >>

LoadChoices ==
    {choice \in [1..Len(LoadKeyValues) -> UNION {LoadKeyValues[i][2] : i \in 1..Len(LoadKeyValues)}] :
        \A i \in 1..Len(LoadKeyValues) : choice[i] \in LoadKeyValues[i][2]}

RECURSIVE PutLoadKeys(_, _, _)
\* The core after put(key, value) for the keys i.. of LoadKeyValues.
PutLoadKeys(trie, choice, i) ==
    IF i > Len(LoadKeyValues) THEN trie
    ELSE PutLoadKeys(put(trie, LoadKeyValues[i][1], choice[i]), choice, i + 1)

\* The hash a ChildEncoding carries, as an Option.
EncodingHash(encoding) == IF encoding[1] = "Hashed" THEN Some(encoding[2]) ELSE None

RECURSIVE MixedPersist(_, _, _, _)
\* A producer that writes the node in legacy form when its depth is in legacy_depths
\* and in current form otherwise: <<blob, embeddable, reference_size, store'>>.
\* A legacy node names its children by hash only, and is itself never embedded.
MixedPersist(node, depth, legacy_depths, store) ==
    LET Refer(child) ==
            IF depth \notin legacy_depths /\ child[2]
            THEN <<ChildEncoding_Embedded(child[1]), child[3], child[4]>>
            ELSE <<ChildEncoding_Hashed(keccak256(child[1])), child[3],
                   save_raw_node(child[4], keccak256(child[1]), child[1])>>
        Child(reference, before) ==
            IF reference[1] = "Empty" THEN <<ChildEncoding_Empty, 0, before>>
            ELSE Refer(MixedPersist(reference[2], depth + 1, legacy_depths, before))
        Blob(left, right, blob, after) ==
            <<blob,
              depth \notin legacy_depths /\ is_terminal(node)
                  /\ Len(blob) <= MAX_EMBEDDED_NODE_SIZE_IN_BYTES,
              left[2] + right[2] + (IF has_long_value(node) THEN value_length(node) ELSE 0)
                  + Len(blob),
              after>>
        Encode(left, right) ==
            Blob(left, right,
                 IF depth \in legacy_depths
                 THEN expect(Orchid_encode_node(node, EncodingHash(left[1]),
                                                EncodingHash(right[1]), FALSE))
                 ELSE expect(encode_node(node, left[1], right[1],
                                         IF is_terminal(node) THEN None
                                         ELSE Some(left[2] + right[2]))),
                 IF has_long_value(node)
                 THEN save_raw_value(right[3], keccak256(node.value[2]), node.value[2])
                 ELSE right[3])
        Left(left) == Encode(left, Child(node.right, left[3]))
    IN Left(Child(node.left, store))

\* The store holding the whole graph of a non-empty entries map.
MixedGraph(entries, legacy_depths) ==
    LET Root(root) == save_raw_node(root[4], keccak256(root[1]), root[1])
    IN Root(MixedPersist(expect(build_root_node(entries)), 0, legacy_depths,
                         InMemoryStore_default))

\* The node hashes of a store that no blob of the store holds: the roots.
TopHashes(store) ==
    {hash \in DOMAIN store.nodes :
        \A other \in DOMAIN store.nodes :
            \A i \in 1..Len(store.nodes[other]) : store.nodes[other][i] # hash[1]}

\* Roots handed to from_persisted_root: the root of the graph, that root cut to 31
\* bytes, the empty-trie hash and a hash no store holds.
LoadRoots ==
    UNION {{root, Slice(root, 0, 31)} : root \in TopHashes(stores[SourceStore])}
        \cup {empty_trie_hash, keccak256(B(<<7>>))}

LoadInit ==
    /\ \E choice \in LoadChoices, legacy_depths \in LegacyDepthSets :
           /\ legacy = PutLoadKeys(Unitrie_new, choice, 1)
           /\ stores = [s \in StoreIds |->
                           IF s = SourceStore THEN MixedGraph(legacy.entries, legacy_depths)
                           ELSE InMemoryStore_default]
    /\ next = NextUnitrie_default
    /\ last = [op |-> "new", key |-> <<>>, value |-> <<>>, store |-> NoStore,
               result |-> None, calls |-> <<>>, removed |-> 0,
               prev_op |-> "none", prev_store |-> NoStore]
    /\ touched = [legacy |-> {}, next |-> {}]
    /\ steps = 0

LoadStep == steps < MaxLoadSteps /\ steps' = steps + 1

\* save_raw_node on the store rehydration reads.
WriteNode(hash, blob) ==
    /\ LoadStep
    /\ stores' = [stores EXCEPT ![LoadStore] = save_raw_node(@, hash, blob)]
    /\ UNCHANGED <<legacy, next, touched>>
    /\ last' = Call("save_raw_node", <<>>, <<>>, {LoadStore}, None, <<>>)

\* A node of the graph reaches the store as it is.
CopyNode(hash) ==
    /\ hash \notin DOMAIN stores[LoadStore].nodes
    /\ WriteNode(hash, stores[SourceStore].nodes[hash])

\* A node of the graph reaches the store with another first byte; one node per store.
CopyNodeWithFirstByte(hash, first) ==
    /\ hash \notin DOMAIN stores[LoadStore].nodes
    /\ \A other \in DOMAIN stores[LoadStore].nodes :
           stores[LoadStore].nodes[other] = stores[SourceStore].nodes[other]
    /\ WriteNode(hash, B(<<first>>) \o Tail(stores[SourceStore].nodes[hash]))

\* save_raw_value on the store rehydration reads.
CopyValue(hash) ==
    /\ LoadStep
    /\ hash \notin DOMAIN stores[LoadStore].values
    /\ stores' = [stores EXCEPT ![LoadStore] =
                     save_raw_value(@, hash, stores[SourceStore].values[hash])]
    /\ UNCHANGED <<legacy, next, touched>>
    /\ last' = Call("save_raw_value", <<>>, <<>>, {LoadStore}, None, <<>>)

\* Unitrie::from_persisted_root(root, store): the result is a new core or an error.
Load(root) ==
    /\ LoadStep
    /\ LET Loaded(loaded) ==
               /\ UNCHANGED <<legacy, next, stores, touched>>
               /\ last' = Call("from_persisted_root", root, <<>>, {LoadStore},
                               IF loaded[1] = "Ok" THEN <<"Ok", loaded[2]>> ELSE loaded,
                               IF loaded[1] = "Ok" THEN loaded[3] ELSE <<>>)
       IN Loaded(from_persisted_root(root, stores[LoadStore]))

LoadNext ==
    \/ \E hash \in DOMAIN stores[SourceStore].nodes : CopyNode(hash)
    \/ \E hash \in DOMAIN stores[SourceStore].nodes : \E first \in OtherFirstBytes :
           CopyNodeWithFirstByte(hash, first)
    \/ \E hash \in DOMAIN stores[SourceStore].values : CopyValue(hash)
    \/ \E root \in LoadRoots : Load(root)

SpecLoad == LoadInit /\ [][LoadNext]_vars

\* The blob has a first byte that is neither 2 nor has 01 as its top two bits.
HasOtherFirstByte(blob) ==
    /\ blob # <<>>
    /\ U8(blob[1]) # 2
    /\ (U8(blob[1]) \div 64) % 4 # 1

\* C15: decoding a persisted node blob whose first byte is neither 2 nor a byte with
\* top two bits 01 fails, and a rehydration whose walk reaches a hash under which the
\* store holds such a blob returns an error, not a trie.
C15_OtherFirstByteIsRejected ==
    /\ \A hash \in DOMAIN stores[LoadStore].nodes :
           HasOtherFirstByte(stores[LoadStore].nodes[hash]) =>
               decode_persisted_node(stores[LoadStore].nodes[hash])[1] = "Err"
    /\ (last.op = "from_persisted_root" /\ last.result[1] = "Ok") =>
           \A hash \in last.result[2].persisted_node_hashes :
               hash \in DOMAIN stores[LoadStore].nodes =>
                   ~HasOtherFirstByte(stores[LoadStore].nodes[hash])

RECURSIVE ReachedFrom(_, _)
\* The references a walk from the node meets: <<"node", hash>> for a Hashed child and
\* <<"value", hash>> for a Hashed value, the walk going on through every child the
\* store holds.
ReachedFrom(node, store) ==
    LET Through(hash, decoded) ==
            IF decoded[1] = "Ok" THEN ReachedFrom(decoded[2], store) ELSE {}
        Below(reference) ==
            CASE reference[1] = "Empty" -> {}
              [] reference[1] = "Embedded" -> ReachedFrom(reference[2], store)
              [] reference[1] = "Hashed" ->
                    {<<"node", reference[2]>>}
                        \cup (IF reference[2] \in DOMAIN store.nodes
                              THEN Through(reference[2],
                                           decode_persisted_node(store.nodes[reference[2]]))
                              ELSE {})
    IN (IF node.value[1] = "Hashed" THEN {<<"value", node.value[2]>>} ELSE {})
           \cup Below(node.left) \cup Below(node.right)

\* The store holds what the reference names.
Held(reference, store) ==
    IF reference[1] = "node" THEN reference[2] \in DOMAIN store.nodes
    ELSE reference[2] \in DOMAIN store.values

\* C16: from_persisted_root returns an error, and no trie, when the root is not 32
\* bytes long, when a root other than the empty-trie hash is absent from the store,
\* and when a Hashed child or a Hashed long value that the walk reaches is absent
\* from the store.
C16_NoTrieFromIncompleteGraph ==
    last.op = "from_persisted_root" =>
        /\ last.result[1] \in {"Ok", "Err"}
        /\ last.result[1] = "Err" => Len(last.result) = 2
        /\ Len(last.key) # 32 => last.result[1] = "Err"
        /\ (Len(last.key) = 32 /\ last.key # empty_trie_hash
                /\ last.key \notin DOMAIN stores[LoadStore].nodes) => last.result[1] = "Err"
        /\ (last.result[1] = "Ok" /\ last.key # empty_trie_hash) =>
               \A reference \in ReachedFrom(
                                    expect(decode_persisted_node(stores[LoadStore].nodes[last.key])),
                                    stores[LoadStore]) :
                   Held(reference, stores[LoadStore])

\* A rehydration failed on a store that holds every node of the graph as written and
\* lacks a long value.
C16_Witness ==
    /\ last.op = "from_persisted_root"
    /\ last.result[1] = "Err"
    /\ stores[LoadStore].nodes = stores[SourceStore].nodes
    /\ Cardinality(DOMAIN stores[LoadStore].nodes) >= 2
    /\ DOMAIN stores[LoadStore].values # DOMAIN stores[SourceStore].values
    /\ last.key \in DOMAIN stores[LoadStore].nodes

\* The store holds a node in one form that names, by hash, a node in the other form.
Names(store, parent_is_legacy) ==
    \E parent \in DOMAIN store.nodes, child \in DOMAIN store.nodes :
        /\ \E i \in 1..Len(store.nodes[parent]) : store.nodes[parent][i] = child[1]
        /\ is_orchid_message(store.nodes[parent]) = parent_is_legacy
        /\ is_orchid_message(store.nodes[child]) = ~parent_is_legacy

\* C20: from_persisted_root on a store that holds a whole graph, some of its nodes in
\* legacy form and the others in current form, succeeds and yields the entries map the
\* graph was written from, whichever form names the other by hash.
C20_MixedGraphRehydrates ==
    (/\ last.op = "from_persisted_root"
     /\ last.key \in TopHashes(stores[SourceStore])
     /\ stores[LoadStore] = stores[SourceStore]) =>
        /\ last.result[1] = "Ok"
        /\ last.result[2].entries = legacy.entries
        /\ last.result[2].persisted_node_hashes = DOMAIN stores[LoadStore].nodes
        /\ last.result[2].persisted_value_hashes = DOMAIN stores[LoadStore].values

\* A rehydration succeeded on a graph in which a current node names a legacy node and
\* a legacy node names a current node.
C20_Witness ==
    /\ last.op = "from_persisted_root"
    /\ last.result[1] = "Ok"
    /\ last.result[2].entries = legacy.entries
    /\ stores[LoadStore] = stores[SourceStore]
    /\ Names(stores[LoadStore], TRUE)
    /\ Names(stores[LoadStore], FALSE)

-----------------------------------------------------------------------------
(* The memoized materialization record, under Spec.                         *)

\* The root hash of the canonical tree built from the entries map, the record put aside.
CanonicalRootHash(trie) == root_hash([trie EXCEPT !.materialized = None])[1]

\* C22: a materialization record that is present holds the root hash of the canonical
\* tree of the current entries map; put and delete leave no record behind; root_hash()
\* returns the hash of the current entries map.
C22_MaterializedIsCurrent ==
    LET Current(hash) ==
            /\ legacy.materialized[1] = "Some" => legacy.materialized[2].root_hash = hash
            /\ last.op = "root_hash" => last.result = hash
    IN /\ Current(CanonicalRootHash(legacy))
       /\ last.op \in {"put", "delete"} => legacy.materialized = None

\* root_hash() right after a put or delete on a core whose record an earlier save had
\* filled.
C22_Witness ==
    /\ last.op = "root_hash"
    /\ last.prev_op \in {"put", "delete"}
    /\ legacy.persisted_node_hashes # {}
    /\ DOMAIN legacy.entries # {}
    /\ legacy.materialized # None

\* C23: a delete_recursive(prefix) that matches no key leaves the core as it was,
\* entries and materialization record alike; one that matches a key clears the record.
RecursiveDeleteFrame ==
    last'.op = "delete_recursive" =>
        IF \E k \in DOMAIN legacy.entries : starts_with(k, last'.key)
        THEN legacy'.materialized = None /\ legacy'.entries # legacy.entries
        ELSE legacy' = legacy

C23_DeleteRecursiveNoMatchIsNoOp == [][RecursiveDeleteFrame]_vars

\* A delete_recursive that matched no key of a core that holds entries and a
\* materialization record.
C23_Witness ==
    /\ last.op = "delete_recursive"
    /\ last.removed = 0
    /\ DOMAIN legacy.entries # {}
    /\ legacy.materialized # None

-----------------------------------------------------------------------------
(* The read operations of a LegacyV1 core among puts, root hashes and saves *)

MaxReadSteps == 4

\* A key outside every account and a storage key of account 0x01.
ReadKeys == {B(<<97, 97>>), storage_full_key(B(<<1>>), B(<<1, 2, 3>>))}

\* The &self methods of Unitrie with the arguments handed to each.
ReadCalls ==
    ({"get", "get_ref", "get_value_length", "get_value_hash"} \X ReadKeys)
        \cup ({"collect_keys"} \X ByteSizes)
        \cup {<<"keys", <<>> >>}
        \cup ({"get_storage_keys"} \X ParityAccounts)

ReadOps == {call[1] : call \in ReadCalls}

ReadStep == steps < MaxReadSteps /\ steps' = steps + 1

ReadPut(key, value) ==
    /\ ReadStep
    /\ legacy' = put(legacy, key, value)
    /\ UNCHANGED <<next, stores, touched>>
    /\ last' = Call("put", key, value, NoStore, None, <<>>)

ReadRootHash ==
    /\ ReadStep
    /\ LET Hashed(hashed) ==
               /\ legacy' = hashed[2]
               /\ UNCHANGED <<next, stores, touched>>
               /\ last' = Call("root_hash", <<>>, <<>>, NoStore, hashed[1], <<>>)
       IN Hashed(root_hash(legacy))

ReadSave(s) ==
    /\ ReadStep
    /\ LET Saved(saved) ==
               /\ legacy' = saved.trie
               /\ stores' = [stores EXCEPT ![s] = saved.store]
               /\ touched' = [touched EXCEPT !.legacy = @ \cup {s}]
               /\ UNCHANGED next
               /\ last' = Call("save", <<>>, <<>>, {s}, saved.stats, <<>>)
       IN Saved(save_to_store_with_stats(legacy, stores[s]))

Read(op, arg) ==
    /\ ReadStep
    /\ LET Returned(read) ==
               /\ legacy' = read[2]
               /\ UNCHANGED <<next, stores, touched>>
               /\ last' = Call(op, arg, <<>>, NoStore, read[1], <<>>)
       IN Returned(Unitrie_read(legacy, op, arg))

ReadNext ==
    \/ \E key \in ReadKeys, value \in {ShortValue, LongValue} : ReadPut(key, value)
    \/ ReadRootHash
    \/ ReadSave(1)
    \/ \E call \in ReadCalls : Read(call[1], call[2])

SpecRead == Init /\ [][ReadNext]_vars

\* C24: get, get_ref, get_value_length, get_value_hash, collect_keys, keys and
\* get_storage_keys leave the entries map, the materialization record and both
\* persisted-hash sets of the core as they were: a read builds no node tree.
ReadFrame ==
    last'.op \in ReadOps =>
        /\ legacy'.entries = legacy.entries
        /\ legacy'.materialized = legacy.materialized
        /\ legacy'.persisted_node_hashes = legacy.persisted_node_hashes
        /\ legacy'.persisted_value_hashes = legacy.persisted_value_hashes

C24_ReadsChangeNothing == [][ReadFrame]_vars

\* A get that found a long value in a core that was saved and then put to: the record
\* is still absent after the read.
C24_Witness ==
    /\ last.op = "get"
    /\ last.result = Some(LongValue)
    /\ last.prev_op = "put"
    /\ legacy.materialized = None
    /\ legacy.persisted_node_hashes # {}

-----------------------------------------------------------------------------
(* The tree build_root_node makes of an entries map                         *)

MaxTreeSteps == 2

\* The empty key, keys that are prefixes of other keys, keys that part at the first
\* bit, in the middle of a byte and at the last bit of a byte.
TreeKeys ==
    {<<>>, B(<<0>>), B(<<0, 0>>), B(<<1>>), B(<<16>>), B(<<128>>), B(<<128, 1>>), B(<<255>>)}

\* Each key's own value; the value of one key is long.
TreeValue(key) == IF key = B(<<128, 1>>) THEN LongValue ELSE B(<<7>>) \o key

TreeInit ==
    /\ \E held \in SUBSET TreeKeys :
           legacy = [Unitrie_new EXCEPT !.entries = [key \in held |-> TreeValue(key)]]
    /\ next = NextUnitrie_default
    /\ stores = [s \in StoreIds |-> InMemoryStore_default]
    /\ last = [op |-> "new", key |-> <<>>, value |-> <<>>, store |-> NoStore,
               result |-> None, calls |-> <<>>, removed |-> 0,
               prev_op |-> "none", prev_store |-> NoStore]
    /\ touched = [legacy |-> {}, next |-> {}]
    /\ steps = 0

TreeStep == steps < MaxTreeSteps /\ steps' = steps + 1

TreePut(key, value) ==
    /\ TreeStep
    /\ legacy' = put(legacy, key, value)
    /\ UNCHANGED <<next, stores, touched>>
    /\ last' = Call("put", key, value, NoStore, None, <<>>)

TreeMaterialize ==
    /\ TreeStep
    /\ legacy.materialized = None
    /\ LET Hashed(hashed) ==
               /\ legacy' = hashed[2]
               /\ UNCHANGED <<next, stores, touched>>
               /\ last' = Call("root_hash", <<>>, <<>>, NoStore, hashed[1], <<>>)
       IN Hashed(root_hash(legacy))

TreeNext ==
    \/ \E key \in TreeKeys : TreePut(key, TreeValue(key))
    \/ TreeMaterialize

SpecTree == TreeInit /\ [][TreeNext]_vars

\* The nodes of the materialized tree; none when the record or the root is absent.
MaterializedNodes ==
    IF legacy.materialized = None \/ legacy.materialized[2].root_node = None THEN {}
    ELSE TreeNodes(legacy.materialized[2].root_node[2])

\* C25: in the tree materialized from a non-empty entries map, every node, the root
\* included, carries a value or has two non-empty children.
C25_NoValuelessSingleChildNode ==
    \A node \in MaterializedNodes :
        \/ node.value # ValueRef_Empty
        \/ node.left # NodeReference_Empty /\ node.right # NodeReference_Empty

\* A materialized tree with a valueless root, a valueless inner node and a node that
\* carries a value and has one child.
C25_Witness ==
    /\ legacy.materialized # None
    /\ legacy.materialized[2].root_node # None
    /\ legacy.materialized[2].root_node[2].value = ValueRef_Empty
    /\ \E node \in MaterializedNodes :
           /\ node # legacy.materialized[2].root_node[2]
           /\ node.value = ValueRef_Empty
    /\ \E node \in MaterializedNodes :
           /\ node.value # ValueRef_Empty
           /\ node.left # NodeReference_Empty
           /\ node.right = NodeReference_Empty

\* The bits of a key, each byte from its highest bit down.
MsbFirst(key) ==
    [i \in 1..(8 * Len(key)) |-> (U8(key[((i - 1) \div 8) + 1]) \div (2 ^ (7 - ((i - 1) % 8)))) % 2]

RECURSIVE ValuePaths(_, _)
\* <<bit path, value>> of every value-bearing node at or below the node, the bit path
\* being the shared paths and the implicit branch bits from the root.
ValuePaths(node, prefix) ==
    LET Below(reference, path) ==
            IF reference[1] = "Embedded" THEN ValuePaths(reference[2], path) ELSE {}
        At(path) ==
            (IF node.value = ValueRef_Empty THEN {} ELSE {<<path, node.value>>})
                \cup Below(node.left, Append(path, 0))
                \cup Below(node.right, Append(path, 1))
    IN At(prefix \o node.shared_path)

\* C26: the bit paths of the value-bearing nodes of the materialized tree are the keys
\* of the entries map expanded MSB-first, each node carries its key's value, and every
\* such path has a multiple of 8 bits; also with the empty key and with keys that are
\* prefixes of other keys.
C26_ValueNodesAreTheKeys ==
    legacy.materialized # None =>
        LET Paths(paths) ==
                /\ paths = {<<MsbFirst(key), ValueRef_Inline(legacy.entries[key])>> :
                                key \in DOMAIN legacy.entries}
                /\ \A path \in paths : Len(path[1]) % 8 = 0
        IN Paths(IF legacy.materialized[2].root_node = None THEN {}
                 ELSE ValuePaths(legacy.materialized[2].root_node[2], <<>>))

\* A materialized tree of a map that holds the empty key, a key that is a prefix of
\* another key, and the long value.
C26_Witness ==
    /\ legacy.materialized # None
    /\ {<<>>, B(<<0>>), B(<<0, 0>>), B(<<128, 1>>)} \subseteq DOMAIN legacy.entries
    /\ Cardinality(MaterializedNodes) >= 5

-----------------------------------------------------------------------------
(* A save that a panicking store write cuts short, then a save that runs    *)
(* to its end                                                               *)

\* The most store writes one save of these tries makes.
MaxWrites == 8

\* The core and the store when the k-th store write of a save panics: the writes
\* before it are in the store.  persist_node_recursive records a value hash and the
\* hash of a node that is not the root before the write, and the root hash after it;
\* a non-empty core was materialized before the walk began.
interrupted_save(trie, store, k) ==
    LET Cut(calls, root_cut) ==
            [trie |->
                 [(IF DOMAIN trie.entries = {} THEN trie ELSE materialize(trie)) EXCEPT
                      !.persisted_node_hashes =
                          @ \cup {calls[i][2] :
                                     i \in {j \in 1..(IF root_cut THEN k - 1 ELSE k) :
                                               calls[j][1] = "save_raw_node"}},
                      !.persisted_value_hashes =
                          @ \cup {calls[i][2] :
                                     i \in {j \in 1..k : calls[j][1] = "save_raw_value"}}],
             store |->
                 [nodes |-> [hash \in {calls[i][2] : i \in {j \in 1..(k - 1) :
                                                        calls[j][1] = "save_raw_node"}}
                                |-> (CHOOSE call \in {calls[i] : i \in 1..(k - 1)} :
                                        call[1] = "save_raw_node" /\ call[2] = hash)[3]]
                                @@ store.nodes,
                  values |-> [hash \in {calls[i][2] : i \in {j \in 1..(k - 1) :
                                                        calls[j][1] = "save_raw_value"}}
                                |-> (CHOOSE call \in {calls[i] : i \in 1..(k - 1)} :
                                        call[1] = "save_raw_value" /\ call[2] = hash)[3]]
                                @@ store.values],
             calls |-> SubSeq(calls, 1, k - 1)]
        Walk(calls) == Cut(calls, k = Len(calls))
    IN Walk(save_to_store_with_stats(trie, store).calls)

InterruptedSave(s, k) ==
    /\ steps < MaxSaveSteps
    /\ steps' = steps + 1
    /\ k <= Len(save_to_store_with_stats(legacy, stores[s]).calls)
    /\ LET Cut(cut) ==
               /\ legacy' = cut.trie
               /\ stores' = [stores EXCEPT ![s] = cut.store]
               /\ touched' = [touched EXCEPT !.legacy = @ \cup {s}]
               /\ UNCHANGED next
               /\ last' = Call("interrupted_save", <<>>, <<>>, {s}, None, cut.calls)
       IN Cut(interrupted_save(legacy, stores[s], k))

InterruptNext ==
    \/ \E s \in StoreIds, k \in 1..MaxWrites : InterruptedSave(s, k)
    \/ \E s \in StoreIds : SaveTo(s)

SpecInterrupt == SaveInit /\ [][InterruptNext]_vars

\* C21: when a save is interrupted at any of its store writes, every blob it has
\* written is keyed by the Keccak-256 of its bytes, and a save of the same core to
\* the same store then completes the persistence: the store holds the root and every
\* node and long value reachable from it, so that it rehydrates the core's entries.
C21_ResumedSaveCompletes ==
    /\ last.op = "interrupted_save" =>
           \A i \in DOMAIN last.calls : last.calls[i][2] = keccak256(last.calls[i][3])
    /\ (last.op = "save" /\ last.prev_op = "interrupted_save" /\ last.prev_store = last.store) =>
           \A s \in last.store :
               LET Loaded(loaded) == loaded[1] = "Ok" /\ loaded[2].entries = legacy.entries
               IN Loaded(from_persisted_root(root_hash(legacy)[1], stores[s]))

-----------------------------------------------------------------------------
(* The keys of the store writes of a save, under Spec.                      *)

\* The one write of the save of an empty map: the empty node under H(0x80).
EmptyNodeCall == StoreCall("save_raw_node", keccak256(B(<<128>>)), B(<<64>>))

\* C27 as stated: every save_raw_node(h, bytes) and save_raw_value(h, v) call of a
\* save carries the Keccak-256 of its payload as key.
C27_EveryWriteIsContentAddressed ==
    last.op = "save" =>
        \A i \in DOMAIN last.calls : last.calls[i][2] = keccak256(last.calls[i][3])

SaveWriteFrame ==
    /\ last'.op = "save" =>
           /\ \A i \in DOMAIN last'.calls :
                  \/ last'.calls[i][2] = keccak256(last'.calls[i][3])
                  \/ /\ last'.calls = <<EmptyNodeCall>>
                     /\ DOMAIN legacy'.entries = {}
           /\ DOMAIN legacy'.entries # {} =>
                  \A i \in DOMAIN last'.calls : last'.calls[i][2] # EmptyNodeCall[2]
    /\ \A s \in StoreIds, t \in StoreIds :
           /\ \A hash \in DOMAIN stores[s].nodes \cap DOMAIN stores'[t].nodes :
                  stores[s].nodes[hash] = stores'[t].nodes[hash]
           /\ \A hash \in DOMAIN stores[s].values \cap DOMAIN stores'[t].values :
                  stores[s].values[hash] = stores'[t].values[hash]

\* C27, corrected: every store call of a save of a non-empty map carries the
\* Keccak-256 of its payload as key; the save of an empty map makes one call, the
\* empty node [0x40] under H(0x80), which is not the hash of that blob; and over
\* mutations and saves no hash is ever given a payload other than the one a store
\* already holds under it.
C27_WritesAreContentAddressedButEmpty == [][SaveWriteFrame]_vars

C27_Witness ==
    /\ last.op = "save"
    /\ Len(last.calls) >= 3
    /\ \E i \in DOMAIN last.calls : last.calls[i][1] = "save_raw_value"
    /\ \E s \in last.store :
           /\ EmptyNodeCall[2] \in DOMAIN stores[s].nodes
           /\ Cardinality(DOMAIN stores[s].nodes) >= 3

-----------------------------------------------------------------------------
(* Which nodes a save writes, under SpecSave.                               *)

\* The references to children in the tree under a root blob.
ChildReferences(root_blob) ==
    UNION {{node.left, node.right} : node \in TreeNodes(BlobNode(root_blob))}

\* The hashes that name children in the tree under a root blob: the nodes below the
\* root that are not embeddable.
HashedChildrenOf(root_blob) ==
    {child[2] : child \in {reference \in ChildReferences(root_blob) :
                               reference[1] = "Hashed"}}

\* The hashes of the serialized forms of the children embedded in that tree.
EmbeddedChildrenOf(root_blob) ==
    {keccak256(expect(encode_node(child[2], ChildEncoding_Empty, ChildEncoding_Empty, None))) :
         child \in {reference \in ChildReferences(root_blob) : reference[1] = "Embedded"}}

HashedChildren == HashedChildrenOf(SavedRootBlob)

EmbeddedChildren == EmbeddedChildrenOf(SavedRootBlob)

\* The save_raw_node calls among the calls of an operation, by position.
NodeCalls(calls) == {i \in 1..Len(calls) : calls[i][1] = "save_raw_node"}

SaveNodeWrites ==
    last'.op = "save" =>
        LET Walked(calls, root, persisted_before, persisted_after) ==
                LET Written(writes, new_children, embedded) ==
                        /\ {calls[i][2] : i \in writes} = {root} \cup new_children
                        /\ Cardinality(writes) = 1 + Cardinality(new_children)
                        /\ \A i \in writes : calls[i][2] = keccak256(calls[i][3])
                        /\ embedded \cap {calls[i][2] : i \in writes} = {}
                IN /\ root \in persisted_after
                   /\ calls[Len(calls)][1] = "save_raw_node"
                   /\ calls[Len(calls)][2] = root
                   /\ IF DOMAIN legacy.entries = {}
                      THEN Cardinality(NodeCalls(calls)) = 1
                      ELSE Written(NodeCalls(calls),
                                   HashedChildrenOf(calls[Len(calls)][3]) \ persisted_before,
                                   EmbeddedChildrenOf(calls[Len(calls)][3]))
        IN Walked(last'.calls, root_hash(legacy)[1], legacy.persisted_node_hashes,
                  legacy'.persisted_node_hashes)

\* C28: a save writes the serialized form of a node iff the node is the root, or it
\* is not embeddable and its hash was not in persisted_node_hashes; it never writes
\* a node that is embeddable and not the root as a blob of its own; and the root's
\* hash is in persisted_node_hashes after every save.
C28_NodeWrittenIffRootOrNewHashed == [][SaveNodeWrites]_vars

\* A second save of a tree with an embedded leaf and two hashed children: the first
\* wrote the root and both children, this one the root alone.
C28_Witness ==
    /\ last.op = "save"
    /\ last.prev_op = "save"
    /\ Cardinality(HashedChildren) >= 2
    /\ EmbeddedChildren # {}
    /\ HashedChildren \subseteq legacy.persisted_node_hashes
    /\ Cardinality(NodeCalls(last.calls)) = 1

-----------------------------------------------------------------------------
(* One core through mutations and saves, with every store call it ever made *)

MaxDedupSteps == 5

\* A key whose leaf is too long to embed when it holds a long value, and a short one.
DedupKeys == {LongKey, B(<<255>>)}

DedupValues == {ShortValue, LongValue}

\* The calls of one save, each with whether it wrote the root: the walk writes the
\* root last.
Marked(calls) == [i \in 1..Len(calls) |-> calls[i] \o <<i = Len(calls)>>]

DedupInit ==
    /\ legacy \in {Unitrie_new, put(Unitrie_new, LongKey, LongValue),
                   put(put(Unitrie_new, LongKey, LongValue), B(<<255>>), ShortValue)}
    /\ next = NextUnitrie_default
    /\ stores = [s \in StoreIds |-> InMemoryStore_default]
    /\ last = [op |-> "new", key |-> <<>>, value |-> <<>>, store |-> NoStore,
               result |-> None, calls |-> <<>>, removed |-> 0,
               prev_op |-> "none", prev_store |-> NoStore]
    /\ touched = [legacy |-> {}, next |-> {}]
    /\ steps = 0

DedupStep == steps < MaxDedupSteps /\ steps' = steps + 1

DedupPut(key, value) ==
    /\ DedupStep
    /\ legacy' = put(legacy, key, value)
    /\ UNCHANGED <<next, stores, touched>>
    /\ last' = Call("put", key, value, NoStore, None, last.calls)

DedupDelete(key) ==
    /\ DedupStep
    /\ legacy' = delete(legacy, key)
    /\ UNCHANGED <<next, stores, touched>>
    /\ last' = Call("delete", key, <<>>, NoStore, None, last.calls)

DedupDeleteRecursive(prefix) ==
    /\ DedupStep
    /\ legacy' = delete_recursive(legacy, prefix)
    /\ UNCHANGED <<next, stores, touched>>
    /\ last' = Call("delete_recursive", prefix, <<>>, NoStore, None, last.calls)

DedupSave(s) ==
    /\ DedupStep
    /\ LET Saved(saved) ==
               /\ legacy' = saved.trie
               /\ stores' = [stores EXCEPT ![s] = saved.store]
               /\ touched' = [touched EXCEPT !.legacy = @ \cup {s}]
               /\ UNCHANGED next
               /\ last' = Call("save", <<>>, <<>>, {s}, saved.stats,
                               last.calls \o Marked(saved.calls))
       IN Saved(save_to_store_with_stats(legacy, stores[s]))

DedupNext ==
    \/ \E key \in DedupKeys, value \in DedupValues : DedupPut(key, value)
    \/ \E key \in DedupKeys : DedupDelete(key)
    \/ DedupDeleteRecursive(<<>>)
    \/ \E s \in StoreIds : DedupSave(s)

SpecDedup == DedupInit /\ [][DedupNext]_vars

\* The positions in a log of the writes of values, and of nodes that were not the
\* root of their save.
ValueWrites(log) == {i \in 1..Len(log) : log[i][1] = "save_raw_value"}

NonRootWrites(log) == {i \in 1..Len(log) : log[i][1] = "save_raw_node" /\ ~log[i][4]}

DedupFrame ==
    LET After(log, node_hashes, value_hashes) ==
            /\ \A i \in ValueWrites(log), j \in ValueWrites(log) :
                   log[i][2] = log[j][2] => i = j
            /\ \A i \in NonRootWrites(log), j \in NonRootWrites(log) :
                   log[i][2] = log[j][2] => i = j
            /\ legacy.persisted_node_hashes \subseteq node_hashes
            /\ legacy.persisted_value_hashes \subseteq value_hashes
            /\ {log[i][2] : i \in ValueWrites(log)} \subseteq value_hashes
            /\ {log[i][2] : i \in NonRootWrites(log)} \subseteq node_hashes
            /\ last'.op \in {"put", "delete", "delete_recursive"} =>
                   /\ node_hashes = legacy.persisted_node_hashes
                   /\ value_hashes = legacy.persisted_value_hashes
    IN After(last'.calls, legacy'.persisted_node_hashes, legacy'.persisted_value_hashes)

\* C29: over the mutations and saves of one core, save_raw_value is called at most
\* once for each long-value hash and a node is written as a node that is not the
\* root at most once for each node hash; persisted_node_hashes and
\* persisted_value_hashes only grow, and put, delete and delete_recursive leave them
\* as they are.
C29_WritesAtMostOncePerHash == [][DedupFrame]_vars

\* A save after the long value and its leaf were saved, deleted, saved without, and
\* put back: this save writes the root alone.
C29_Witness ==
    /\ last.op = "save"
    /\ Cardinality(ValueWrites(last.calls)) = 1
    /\ Cardinality(NonRootWrites(last.calls)) = 1
    /\ Cardinality(NodeCalls(last.calls)) >= 4
    /\ last.result.values_written = 0
    /\ last.result.nodes_written = 1
    /\ LongValue \in {legacy.entries[key] : key \in DOMAIN legacy.entries}
    /\ Cardinality(DOMAIN legacy.entries) = 2

-----------------------------------------------------------------------------
(* Rehydration from a store that saves of this core filled, and a save of   *)
(* what was rehydrated                                                      *)

ReloadNext ==
    \/ \E s \in StoreIds : LegacySave(s)
    \/ \E root \in LegacyRoots, s \in StoreIds : LegacyLoad(root, s)

SpecReload == SaveInit /\ [][ReloadNext]_vars

\* The hashes of the long values among the entries of a core.
LongValueHashes(trie) ==
    {keccak256(trie.entries[key]) :
         key \in {k \in DOMAIN trie.entries : Len(trie.entries[k]) > LONG_VALUE_THRESHOLD}}

\* What a rehydrated core has recorded of the graph under a root.
RecordsGraph(trie, root, store) ==
    /\ root \in trie.persisted_node_hashes
    /\ HashedChildrenOf(expect(load_raw_node(store, root))) \subseteq trie.persisted_node_hashes
    /\ LongValueHashes(trie) \subseteq trie.persisted_value_hashes

\* The save that follows a rehydration from the same store writes the root alone.
SaveAfterLoadWritesRoot ==
    (/\ last.op = "from_persisted_root" /\ last.result = <<"Ok">>
     /\ last'.op = "save" /\ last'.store = last.store) =>
        /\ last'.result.nodes_written = 1
        /\ last'.result.values_written = 0
        /\ Len(last'.calls) = 1
        /\ last'.calls[1][1] = "save_raw_node"
        /\ last'.calls[1][2] = last.key

ReloadFrameAsStated ==
    /\ (last'.op = "from_persisted_root" /\ last'.result = <<"Ok">>) =>
           \A s \in last'.store : RecordsGraph(legacy', last'.key, stores[s])
    /\ SaveAfterLoadWritesRoot

\* C30 as stated: after from_persisted_root on a store that saves wrote,
\* persisted_node_hashes contains the root hash and the hash of every hashed child of
\* the graph and persisted_value_hashes the hash of every long value, and a save of
\* the rehydrated core to the same store writes the root and nothing else.
C30_RehydrationRecordsRootAndGraph == [][ReloadFrameAsStated]_vars

ReloadFrame ==
    /\ (last'.op = "from_persisted_root" /\ last'.result = <<"Ok">>) =>
           IF last'.key = keccak256(B(<<128>>))
           THEN /\ legacy'.persisted_node_hashes = {}
                /\ legacy'.persisted_value_hashes = {}
                /\ DOMAIN legacy'.entries = {}
           ELSE \A s \in last'.store : RecordsGraph(legacy', last'.key, stores[s])
    /\ SaveAfterLoadWritesRoot

\* C30, corrected: after from_persisted_root of a root other than the empty-trie
\* hash on a store that saves wrote, persisted_node_hashes contains the root hash
\* and the hash of every hashed child of the graph, and persisted_value_hashes the
\* hash of every long value; from the empty-trie hash the core is new and both sets
\* are empty.  In both cases a save of the rehydrated core to the same store writes
\* one node, the root, and no value.
C30_RehydrationRecordsGraph == [][ReloadFrame]_vars

\* A save right after the rehydration of a graph with a hashed child and a long
\* value.
C30_Witness ==
    /\ last.op = "save"
    /\ last.prev_op = "from_persisted_root"
    /\ last.prev_store = last.store
    /\ last.result.nodes_written = 1
    /\ last.result.nodes_visited >= 3
    /\ HashedChildren # {}
    /\ LongValueHashes(legacy) # {}
    /\ legacy.persisted_value_hashes = LongValueHashes(legacy)

-----------------------------------------------------------------------------
(* Rehydration from the empty-trie hash, under Spec.                        *)

\* C31: from_persisted_root of the empty-trie hash returns Ok with a core that has
\* no keys and whose root hash is the empty-trie hash, makes no call to the store,
\* and does so whether or not the store holds a blob under that hash.
C31_EmptyRootRehydratesWithoutStore ==
    (last.op = "from_persisted_root" /\ last.key = keccak256(B(<<128>>))) =>
        /\ last.result = <<"Ok">>
        /\ last.calls = <<>>
        /\ legacy = Unitrie_new
        /\ key_count(legacy) = 0
        /\ root_hash(legacy)[1] = keccak256(B(<<128>>))

\* The empty-trie hash was rehydrated from a store that holds nothing under it.
C31_Witness ==
    /\ last.op = "from_persisted_root"
    /\ last.key = keccak256(B(<<128>>))
    /\ last.result = <<"Ok">>
    /\ \E s \in last.store : keccak256(B(<<128>>)) \notin DOMAIN stores[s].nodes

-----------------------------------------------------------------------------
(* The order of the store writes of one save, under SpecSave.               *)

RECURSIVE StoreAfter(_, _, _)
\* The store after the first k calls of a save.
StoreAfter(store, calls, k) ==
    IF k = 0 THEN store
    ELSE LET Applied(before) ==
                 IF calls[k][1] = "save_raw_node"
                 THEN save_raw_node(before, calls[k][2], calls[k][3])
                 ELSE save_raw_value(before, calls[k][2], calls[k][3])
         IN Applied(StoreAfter(store, calls, k - 1))

\* The hashes a node blob names: its hashed children, and its long value.
NamedNodes(blob) ==
    {reference[2] : reference \in {child \in {BlobNode(blob).left, BlobNode(blob).right} :
                                      child[1] = "Hashed"}}

NamedValues(blob) ==
    IF BlobNode(blob).value[1] = "Hashed" THEN {BlobNode(blob).value[2]} ELSE {}

\* A store in which every node blob has its hashed children and its long value.
ClosedUnderReferences(store) ==
    \A hash \in DOMAIN store.nodes :
        /\ NamedNodes(store.nodes[hash]) \subseteq DOMAIN store.nodes
        /\ NamedValues(store.nodes[hash]) \subseteq DOMAIN store.values

\* The writes of one save come in post-order.
PostOrder(calls, root) ==
    /\ calls[Len(calls)][1] = "save_raw_node"
    /\ calls[Len(calls)][2] = root
    /\ \A i \in NodeCalls(calls) : \A j \in 1..Len(calls) :
           \/ /\ calls[j][1] = "save_raw_node"
              /\ calls[j][2] \in NamedNodes(calls[i][3])
           \/ /\ calls[j][1] = "save_raw_value"
              /\ calls[j][2] \in NamedValues(calls[i][3])
           => j < i

\* Every store between two writes of a save is closed under references.
ClosedThroughout(store, calls) ==
    \A k \in 0..Len(calls) : ClosedUnderReferences(StoreAfter(store, calls, k))

\* The store holds every blob the core has recorded as persisted.
HoldsPersisted(trie, store) ==
    /\ trie.persisted_node_hashes \subseteq DOMAIN store.nodes
    /\ trie.persisted_value_hashes \subseteq DOMAIN store.values

PostOrderFrameAsStated ==
    last'.op = "save" =>
        \A s \in last'.store :
            /\ PostOrder(last'.calls, root_hash(legacy)[1])
            /\ ClosedUnderReferences(stores[s]) => ClosedThroughout(stores[s], last'.calls)

PostOrderFrame ==
    last'.op = "save" =>
        \A s \in last'.store :
            /\ PostOrder(last'.calls, root_hash(legacy)[1])
            /\ (ClosedUnderReferences(stores[s]) /\ HoldsPersisted(legacy, stores[s]))
                   => ClosedThroughout(stores[s], last'.calls)

-----------------------------------------------------------------------------
(* The memoized root hash of a NextUnitrie, under SpecNext.                 *)

\* C33: in every state of a NextUnitrie the memoized root hash, when present, is
\* the root hash of the inner core's entries; put, delete and delete_recursive
\* leave it absent; root_hash and save_to_store leave it present; and root_hash
\* returns the inner core's root hash.
C33_NextHashStateIsCurrent ==
    /\ next.hash_state # None =>
           next.hash_state = Some(CanonicalRootHash(next.inner))
    /\ Next_root_hash(next)[1] = CanonicalRootHash(next.inner)
    /\ last.op \in {"put", "delete", "delete_recursive"} => next.hash_state = None
    /\ last.op \in {"root_hash", "save"} =>
           next.hash_state = Some(CanonicalRootHash(next.inner))
    /\ last.op = "root_hash" => last.result = CanonicalRootHash(next.inner)
    /\ (last.op = "from_persisted_root" /\ last.result = <<"Ok">>) =>
           next.hash_state = Some(CanonicalRootHash(next.inner))

\* A delete that removed a key right after root_hash had memoized the hash.
C33_Witness ==
    /\ last.op = "delete"
    /\ last.prev_op = "root_hash"
    /\ last.removed = 1
    /\ next.hash_state = None
    /\ next.mutation_generation = U64(2)

-----------------------------------------------------------------------------
(* The hash-only walk and the persisting walk, under SpecSave.              *)

\* The metadata the persisting walk computes for a node, on a store of its own.
PersistedMetadata(node) ==
    persist_node_recursive(node, SaveCtx(InMemoryStore_default, {}, {}, <<>>), FALSE)[2]

SaveHashFrame ==
    (last'.op = "save" /\ DOMAIN legacy.entries # {}) =>
        LET Same(before, calls, after, nodes) ==
                /\ calls[Len(calls)] = StoreCall("save_raw_node", before, calls[Len(calls)][3])
                /\ before = keccak256(calls[Len(calls)][3])
                /\ after = before
                /\ \A node \in nodes :
                       expect(compute_node_metadata(node)) = PersistedMetadata(node)
        IN Same(root_hash(legacy)[1], last'.calls, root_hash(legacy')[1],
                TreeNodes(legacy'.materialized[2].root_node[2]))

\* C34: for a non-empty trie, root_hash before a save is the hash under which the
\* save writes the root blob and is root_hash after the save; compute_node_metadata
\* and persist_node_recursive give every node of the tree the same serialized form,
\* hash, reference size and embedding choice.
C34_HashWalkEqualsPersistWalk == [][SaveHashFrame]_vars

\* The first save of a tree with an embedded child, a hashed child and a long value.
C34_Witness ==
    /\ last.op = "save"
    /\ last.prev_op = "new"
    /\ HashedChildren # {}
    /\ EmbeddedChildren # {}
    /\ CallsTo("save_raw_value") # {}
    /\ keccak256(SavedRootBlob) = root_hash(legacy)[1]

-----------------------------------------------------------------------------
(* The statistics a save returns, under SpecSave.                           *)

RECURSIVE NodeCount(_)
\* The number of nodes at and below a reference of a materialized tree.
NodeCount(reference) ==
    IF reference[1] = "Embedded"
    THEN 1 + NodeCount(reference[2].left) + NodeCount(reference[2].right)
    ELSE 0

\* The number of nodes of the materialized tree of a core; the tree of the empty map
\* is the empty root alone.
MaterializedNodeCount(trie) ==
    IF trie.materialized[2].root_node = None THEN 1
    ELSE NodeCount(NodeReference_Embedded(trie.materialized[2].root_node[2]))

\* C35: the SaveStats a save returns are exact: nodes_visited is the number of nodes
\* of the materialized tree, nodes_written the number of save_raw_node calls of the
\* save, values_written the number of its save_raw_value calls, and nodes_written is
\* at most nodes_visited.
C35_SaveStatsAreExact ==
    last.op = "save" =>
        /\ last.result.nodes_visited = MaterializedNodeCount(legacy)
        /\ last.result.nodes_written = Cardinality(NodeCalls(last.calls))
        /\ last.result.values_written
               = Cardinality({i \in 1..Len(last.calls) : last.calls[i][1] = "save_raw_value"})
        /\ last.result.nodes_written + last.result.values_written = Len(last.calls)
        /\ last.result.nodes_written <= last.result.nodes_visited

\* A save that visited more nodes than it wrote, wrote more than the root, and wrote
\* once the long value that two keys hold.
C35_Witness ==
    /\ last.op = "save"
    /\ last.result.nodes_written >= 3
    /\ last.result.nodes_visited > last.result.nodes_written
    /\ last.result.values_written = 1
    /\ Cardinality({key \in DOMAIN legacy.entries : legacy.entries[key] = LongValue}) >= 2

-----------------------------------------------------------------------------
(* A StorageIterationCache of a small capacity through inserts and lookups, *)
(* with the log of the inserts made                                         *)

MaxLruSteps == 4

MaxCapacity == 2

LruAccounts == {B(<<1>>), B(<<2>>), B(<<3>>)}

LruGenerations == {U64(0), U64(1)}

\* The key lists an insert may bring.
LruKeyLists == {<<>>, <<B(<<7>>)>>}

LruInit ==
    /\ legacy = Unitrie_new
    /\ \E capacity \in 0..MaxCapacity :
           next = [NextUnitrie_default EXCEPT
                      !.storage_iteration_cache = StorageIterationCache_new(capacity)]
    /\ stores = [s \in StoreIds |-> InMemoryStore_default]
    /\ last = [op |-> "new", key |-> <<>>, value |-> <<>>, store |-> NoStore,
               result |-> None, calls |-> <<>>, removed |-> 0,
               prev_op |-> "none", prev_store |-> NoStore]
    /\ touched = [legacy |-> {}, next |-> {}]
    /\ steps = 0

LruStep == steps < MaxLruSteps /\ steps' = steps + 1

\* last.calls is the log of the inserts: <<account, generation, keys, packed>>.
LruInsert(account_address, generation, cached_keys) ==
    /\ LruStep
    /\ LET Inserted(packed, inserted) ==
               /\ next' = [next EXCEPT !.storage_iteration_cache = inserted[1]]
               /\ UNCHANGED <<legacy, stores, touched>>
               /\ last' = Call("insert", account_address, <<generation>>, NoStore,
                               <<inserted[2], inserted[3]>>,
                               Append(last.calls,
                                      <<account_address, generation, cached_keys, packed>>))
           Packed(packed) ==
               Inserted(packed, insert(next.storage_iteration_cache, account_address,
                                       generation, cached_keys, packed))
       IN Packed(storage_keys_packed_encode(cached_keys))

LruGetKeys(account_address, generation) ==
    /\ LruStep
    /\ UNCHANGED <<legacy, next, stores, touched>>
    /\ last' = Call("get_keys", account_address, <<generation>>, NoStore,
                    get_keys(next.storage_iteration_cache, account_address, generation),
                    last.calls)

LruGetPacked(account_address, generation) ==
    /\ LruStep
    /\ UNCHANGED <<legacy, next, stores, touched>>
    /\ last' = Call("get_packed", account_address, <<generation>>, NoStore,
                    get_packed(next.storage_iteration_cache, account_address, generation),
                    last.calls)

LruNext ==
    \/ \E account_address \in LruAccounts, generation \in LruGenerations,
          cached_keys \in LruKeyLists :
           LruInsert(account_address, generation, cached_keys)
    \/ \E account_address \in LruAccounts, generation \in LruGenerations :
           LruGetKeys(account_address, generation)
    \/ \E account_address \in LruAccounts, generation \in LruGenerations :
           LruGetPacked(account_address, generation)

SpecLru == LruInit /\ [][LruNext]_vars

\* The cache of the state.
Cache == next.storage_iteration_cache

\* C36: after any inserts into a cache of capacity c, the cache holds at most c
\* accounts, the eviction queue holds exactly the cached accounts, each once, and
\* with c = 0 nothing is stored; insert returns the keys and the packed payload it
\* was given.
C36_CacheBoundedAndQueueExact ==
    /\ Cardinality(DOMAIN Cache.entries) <= Cache.capacity
    /\ {Cache.order[i] : i \in 1..Len(Cache.order)} = DOMAIN Cache.entries
    /\ Len(Cache.order) = Cardinality(DOMAIN Cache.entries)
    /\ Cache.capacity = 0 => Cache = StorageIterationCache_new(0)
    /\ last.op = "insert" =>
           last.result = <<last.calls[Len(last.calls)][3], last.calls[Len(last.calls)][4]>>

\* A cache of capacity 0 after an insert of a list of one key.
C36_ZeroCapacityWitness ==
    /\ Cache.capacity = 0
    /\ last.op = "insert"
    /\ last.result[1] = <<B(<<7>>)>>
    /\ Cache.entries = EmptyMap

\* The positions of a log that are the last insert of their account, oldest first.
LastInserts(log) ==
    SelectSeq([i \in 1..Len(log) |-> i],
              LAMBDA i : \A j \in (i + 1)..Len(log) : log[j][1] # log[i][1])

\* The accounts a cache of a capacity holds after the inserts of a log, oldest
\* first: the accounts inserted last, in the order of their last insert.
MostRecent(log, capacity) ==
    LET Kept(positions) ==
            [i \in 1..Min(capacity, Len(positions)) |->
                 log[positions[Len(positions) - Min(capacity, Len(positions)) + i]][1]]
    IN Kept(LastInserts(log))

\* C37: the accounts a cache holds are those inserted most recently, queued in the
\* order of their last insert, so that the account an insert evicts is the one whose
\* last insert is oldest and an insert of a cached account makes it the newest; a
\* lookup leaves the queue as it is.
C37_EvictsOldestInsert ==
    /\ Cache.order = MostRecent(last.calls, Cache.capacity)
    /\ (last.op = "insert" /\ Cache.capacity > 0) =>
           /\ Cache.order[Len(Cache.order)] = last.key
           /\ Cache.entries[last.key]
                  = CacheEntry(last.calls[Len(last.calls)][2],
                               last.calls[Len(last.calls)][3],
                               last.calls[Len(last.calls)][4])

\* An insert of the older of two cached accounts, then the insert of a third: the
\* cache holds the re-inserted account and the third.
C37_Witness ==
    /\ Cache.capacity = 2
    /\ Len(last.calls) = 4
    /\ last.calls[1][1] = last.calls[3][1]
    /\ last.calls[2][1] \notin {last.calls[1][1], last.calls[4][1]}
    /\ Cache.order = <<last.calls[3][1], last.calls[4][1]>>
    /\ last.op = "insert"
    /\ last.calls[2][1] \notin DOMAIN Cache.entries

\* What the last insert of an account brought, when the cache still holds it.
Stored(account_address) ==
    IF account_address \in DOMAIN Cache.entries
    THEN Some(last.calls[CHOOSE i \in 1..Len(last.calls) :
                             /\ last.calls[i][1] = account_address
                             /\ \A j \in (i + 1)..Len(last.calls) :
                                    last.calls[j][1] # account_address])
    ELSE None

LookupFrame ==
    last'.op \in {"get_keys", "get_packed"} =>
        /\ next' = next
        /\ LET Found(stored, generation) ==
                   IF stored # None /\ stored[2][2] = generation
                   THEN last'.result
                            = Some(stored[2][IF last'.op = "get_keys" THEN 3 ELSE 4])
                   ELSE last'.result = None
           IN Found(Stored(last'.key), last'.value[1])

\* C38: get_keys(account, g) and get_packed(account, g) return the keys and the
\* packed payload stored for the account iff the cache holds an entry for it whose
\* generation is g, return nothing for any other generation, and leave the cache as
\* it is.
C38_LookupNeedsSameGeneration == [][LookupFrame]_vars

\* A lookup under the generation of the entry that found it, after a lookup under
\* another generation that found nothing.
C38_Witness ==
    /\ last.op = "get_packed"
    /\ last.result # None
    /\ last.prev_op = "get_keys"
    /\ last.key \in DOMAIN Cache.entries
    /\ Cache.entries[last.key].generation = last.value[1]
    /\ Cache.entries[last.key].keys # <<>>

-----------------------------------------------------------------------------
(* The generation counter near its carries and its largest value            *)

\* Counters at which a limb carries, and the largest ones.
Generations ==
    {U64(0), U64(LimbModulus - 1),
     <<LimbModulus - 1, LimbModulus - 1, 0, 0>>,
     <<LimbModulus - 1, LimbModulus - 1, LimbModulus - 1, 0>>,
     <<LimbModulus - 3, LimbModulus - 1, LimbModulus - 1, LimbModulus - 1>>,
     <<LimbModulus - 2, LimbModulus - 1, LimbModulus - 1, LimbModulus - 1>>,
     U64_MAX}

GenerationInit ==
    /\ legacy = Unitrie_new
    /\ \E generation \in Generations :
           next = [NextUnitrie_default EXCEPT !.mutation_generation = generation]
    /\ stores = [s \in StoreIds |-> InMemoryStore_default]
    /\ last = [op |-> "new", key |-> <<>>, value |-> <<>>, store |-> NoStore,
               result |-> None, calls |-> <<>>, removed |-> 0,
               prev_op |-> "none", prev_store |-> NoStore]
    /\ touched = [legacy |-> {}, next |-> {}]
    /\ steps = 0

\* MutationGeneration::next called on the counter of the core.
GenerationNextCall ==
    /\ NextStep
    /\ LET Advanced(generation) ==
               /\ next' = [next EXCEPT !.mutation_generation = generation]
               /\ UNCHANGED <<legacy, stores, touched>>
               /\ last' = Call("next", <<>>, <<>>, NoStore, generation, <<>>)
       IN Advanced(MutationGeneration_next(next.mutation_generation))

GenerationNext ==
    \/ \E key \in Keys, value \in PutValues : NextPut(key, value)
    \/ \E key \in Keys : NextDelete(key)
    \/ \E prefix \in Prefixes : NextDeleteRecursive(prefix)
    \/ GenerationNextCall

SpecGeneration == GenerationInit /\ [][GenerationNext]_vars

\* after is before + 1 modulo 2^64: the limbs of before that are full, up to the
\* first that is not, become 0, that one grows by one and the limbs above it stay;
\* when every limb is full, after is 0.
IsSuccessor(before, after) ==
    IF \A i \in 1..Len(before) : before[i] = LimbModulus - 1
    THEN \A i \in 1..Len(after) : after[i] = 0
    ELSE \E k \in 1..Len(before) :
             /\ \A i \in 1..(k - 1) : before[i] = LimbModulus - 1 /\ after[i] = 0
             /\ before[k] < LimbModulus - 1
             /\ after[k] = before[k] + 1
             /\ \A i \in (k + 1)..Len(before) : after[i] = before[i]

GenerationFrame ==
    /\ last'.op \in {"next", "put", "delete", "delete_recursive"} =>
           /\ Len(next'.mutation_generation) = Len(next.mutation_generation)
           /\ IsSuccessor(next.mutation_generation, next'.mutation_generation)
    /\ last'.op = "next" => last'.result = next'.mutation_generation

\* C39: MutationGeneration::next advances the counter by exactly one modulo 2^64,
\* from the largest value to 0, and returns the new value; every put, delete and
\* delete_recursive of NextUnitrie advances the counter exactly once, whether or not
\* it changes the entries.
C39_GenerationAdvancesByOneWrapping == [][GenerationFrame]_vars

\* A delete of a key the core does not hold took the counter from its largest
\* value to 0.
C39_Witness ==
    /\ last.op = "delete"
    /\ last.removed = 0
    /\ last.prev_op = "next"
    /\ last.result = None
    /\ next.mutation_generation = U64(0)
    /\ key_count(next.inner) = 0

-----------------------------------------------------------------------------
(* Rskip107Codec on terminal nodes with shared paths of every header range  *)

\* Shared-path bit lengths: none, the ends of the one-byte range 1..32, the ends of
\* the gap 33..159, the ends of the range 160..382, and two lengths above it.
PathLengths == {0, 1, 7, 8, 9, 32, 33, 96, 159, 160, 255, 381, 382, 383, 400}

\* The bit at position i of the pattern: all 0, all 1, alternating from 1, or 1 at
\* every third position and at the last.
PatternBit(pattern, i, n) ==
    CASE pattern = 0 -> 0
      [] pattern = 1 -> 1
      [] pattern = 2 -> i % 2
      [] OTHER -> IF i % 3 = 0 \/ i = n THEN 1 ELSE 0

PathPatterns == 0..3

\* Inline values: none, one byte, and one of LONG_VALUE_THRESHOLD bytes.
CodecValues == {<<>>, B(<<0>>), B(<<1, 2, 3, 4>>), Repeat(255, LONG_VALUE_THRESHOLD)}

\* The terminal node of a shared path and a value.
TerminalNode(shared_path, value) ==
    TrieNode_new(shared_path, ValueRef_inline(value),
                 NodeReference_Empty, NodeReference_Empty)

\* last.key and last.value hold the shared path and the value of the node.
CodecInit ==
    /\ legacy = Unitrie_new
    /\ next = NextUnitrie_default
    /\ stores = [s \in StoreIds |-> InMemoryStore_default]
    /\ \E n \in PathLengths, pattern \in PathPatterns, value \in CodecValues :
           last = [op |-> "new", key |-> [i \in 1..n |-> PatternBit(pattern, i, n)],
                   value |-> value, store |-> NoStore,
                   result |-> None, calls |-> <<>>, removed |-> 0,
                   prev_op |-> "none", prev_store |-> NoStore]
    /\ touched = [legacy |-> {}, next |-> {}]
    /\ steps = 0

CodecEncode ==
    /\ last.op = "new"
    /\ steps' = steps + 1
    /\ UNCHANGED <<legacy, next, stores, touched>>
    /\ last' = Call("encode_node", last.key, last.value, NoStore,
                    encode_node(TerminalNode(last.key, last.value),
                                ChildEncoding_Empty, ChildEncoding_Empty, None),
                    <<>>)

CodecDecode ==
    /\ last.op = "encode_node"
    /\ last.result[1] = "Ok"
    /\ steps' = steps + 1
    /\ UNCHANGED <<legacy, next, stores, touched>>
    /\ last' = Call("decode_node", last.key, last.value, NoStore,
                    Rskip107_decode_node(last.result[2]), <<>>)

CodecNext == CodecEncode \/ CodecDecode

SpecCodec == CodecInit /\ [][CodecNext]_vars

\* The header serialize_into writes for a path of n > 0 bits is one byte for n in
\* 1..32 and 160..382 and 0xff followed by a varint otherwise.
HeaderLength(n) ==
    IF (1 <= n /\ n <= 32) \/ (160 <= n /\ n <= 382) THEN 1 ELSE 1 + size_of(n)

\* C40: a terminal node with a value of at most 32 bytes and a shared path of any
\* bit length is encoded without error, and decode_node of the encoding is the node:
\* read_path_bit_length reads the header serialize_into wrote back as the same bit
\* length, consuming the whole header, and the trailing bytes are the inline value.
C40_TerminalNodeRoundTrips ==
    /\ last.op = "encode_node" =>
           /\ last.result[1] = "Ok"
           /\ last.key # <<>> =>
                  read_path_bit_length(last.result[2], 1)
                      = <<"Ok", Len(last.key), 1 + HeaderLength(Len(last.key))>>
           /\ Slice(last.result[2], Len(last.result[2]) - Len(last.value),
                    Len(last.result[2])) = last.value
    /\ last.op = "decode_node" =>
           last.result = <<"Ok", TerminalNode(last.key, last.value)>>

\* The node of a 159-bit shared path, of the gap between the one-byte header
\* ranges, and a 32-byte value, read back.
C40_Witness ==
    /\ last.op = "decode_node"
    /\ Len(last.key) = 159
    /\ Len(last.value) = LONG_VALUE_THRESHOLD
    /\ last.result[1] = "Ok"
    /\ last.result[2].shared_path[159] = 1
    /\ last.result[2].shared_path[158] = 0

====
